---------------------------- MODULE Spec2Model ----------------------------
(***************************************************************************)
(* The profile extraction core of three-loader: ProfileRequest (the        *)
(* cooperative traversal/filter state machine), ProfileController (spawns, *)
(* cancels and aggregates requests) and Profile (markers and their         *)
(* events), as a state machine whose actions are the public operations.    *)
(***************************************************************************)
EXTENDS Integers, Sequences, FiniteSets, TLC

(***************************************************************************)
(* Bounds of the model.                                                    *)
(***************************************************************************)
NumPointclouds == 2
MaxRequests == 2
MaxMarkers == 2
MaxTicks == 2
CountCap == 2
(* The controller's threshold in the modelled scenes (60 000 by default),  *)
(* and the wall-clock time of one Tick.                                    *)
ScenarioThreshold == 100
TickMs == 60

(***************************************************************************)
(* Program constants.                                                      *)
(***************************************************************************)
ProgressBatch == 100
DebounceMs == 100
YieldProbe == 1000

Pointclouds == 1..NumPointclouds
Profiles == {1}
NoProfile == 0

(***************************************************************************)
(* The octrees (their shape and content are input data).  Pointcloud 1:    *)
(*        1 (root, level 0)                                                *)
(*       /|\                                                               *)
(*      2 3 5      level 1; node 5 lies outside the profile corridor       *)
(*      |                                                                  *)
(*      4          level 2                                                 *)
(* with hierarchyStepSize 1; every other pointcloud is the chain 1 - 2 - 4 *)
(* with hierarchyStepSize 2, node 4 lying outside the corridor.  Children  *)
(* are populated from the start.                                           *)
(***************************************************************************)
Nodes == 1..5
Root == 1
NodeLevel == <<0, 1, 1, 2, 1>>
NodeRadius == <<8, 4, 4, 2, 4>>
NodeNumPoints == <<120, 150, 80, 40, 90>>
NodeChildren(pc, n) ==
  IF pc = 1 THEN << <<2, 3, 5>>, <<4>>, <<>>, <<>>, <<>> >>[n]
  ELSE << <<2>>, <<4>>, <<>>, <<>>, <<>> >>[n]
NodeHasChildren(pc, n) == Len(NodeChildren(pc, n)) > 0

(* Number.MAX_VALUE, the depth limit of a request created without one.     *)
Unlimited == 1 + NodeLevel[4]

(* geom.hierarchyStepSize of pointcloud pc's octree.                       *)
HierarchyStepSize(pc) == IF pc = 1 THEN 1 ELSE 2

(* Whether node n's world bounding sphere is within radius + width of      *)
(* segment s of the polyline.                                              *)
SegmentHit(pc, n, s) ==
  IF pc = 1 THEN n # 5 /\ (s = 1 \/ n # 3) ELSE n \in {1, 2}

(* Number of points of node n getAccepted accepts for segment s.           *)
NumAccepted(pc, n, s) ==
  IF SegmentHit(pc, n, s) THEN NodeNumPoints[n] \div (2 * s) ELSE 0

VARIABLES req, ctl, pcs, prof, now, last, calc

vars == <<req, ctl, pcs, prof, now, last, calc>>

(***************************************************************************)
(* Small helpers.                                                          *)
(***************************************************************************)
Max(a, b) == IF a > b THEN a ELSE b
Min(a, b) == IF a < b THEN a ELSE b
Sat(n) == Min(n, CountCap)

RECURSIVE SeqSum(_)
SeqSum(s) == IF s = <<>> THEN 0 ELSE Head(s) + SeqSum(Tail(s))

RECURSIVE Without(_, _)
(* Array.indexOf + splice(index, 1): drops the first occurrence of x.      *)
Without(s, x) ==
  IF s = <<>> THEN <<>>
  ELSE IF Head(s) = x THEN Tail(s) ELSE <<Head(s)>> \o Without(Tail(s), x)

(* Lexicographic order on filter cursors <<segment, checkpoint>>.          *)
CurLess(a, b) == a[1] < b[1] \/ (a[1] = b[1] /\ a[2] < b[2])
CurLeq(a, b) == a = b \/ CurLess(a, b)

(***************************************************************************)
(* ProfileData: one Points buffer per segment, here its numPoints.         *)
(***************************************************************************)
NumSegments(markers) == Max(0, markers - 1)
NewProfileData(markers) == [s \in 1..NumSegments(markers) |-> 0]
DataSize(data) == SeqSum(data)

(***************************************************************************)
(* The priority queue: a bag of entries {node, weight}, one per push.      *)
(* The root's entry weighs Infinity, every other its sphere radius.        *)
(***************************************************************************)
EmptyQueue == [n \in Nodes |-> 0]
QueueSize(q) == SeqSum([i \in 1..Len(NodeRadius) |-> q[i]])
QueuePushTwice(q, n) == [q EXCEPT ![n] = @ + 2]
QueuePush(q, n) == [q EXCEPT ![n] = @ + 1]
QueueRemoveAll(q, n) == [m \in Nodes |-> 0]
QueueRemove(q, n) == [q EXCEPT ![n] = @ - 1]
(* A heap scored by weight instead of 1 / weight.                          *)
HeavierByWeightScore(m, n) ==
  \/ n = Root /\ m # Root
  \/ m # Root /\ n # Root /\ NodeRadius[m] < NodeRadius[n]

Heavier(m, n) ==
  \/ m = Root /\ n # Root
  \/ m # Root /\ n # Root /\ NodeRadius[m] > NodeRadius[n]
(* The entries pop() may return: those of smallest 1/weight.               *)
PopChoices(q) == {n \in Nodes : q[n] > 0 /\ \A m \in Nodes : q[m] > 0 => ~Heavier(m, n)}

(* PointCloudOctree.nodeIntersectsProfile for a profile of nsegs segments. *)
NodeIntersectsProfile(pc, n, nsegs) == \E s \in 1..nsegs : SegmentHit(pc, n, s)

IntersectingChildren(pc, n, nsegs) ==
  SelectSeq(NodeChildren(pc, n), LAMBDA c : NodeIntersectsProfile(pc, c, nsegs))

RECURSIVE TraverseLoop(_, _, _, _, _)
TraverseLoop(pc, stack, q, maxDepth, nsegs) ==
  IF stack = <<>> THEN q
  ELSE LET node == stack[Len(stack)]
           rest == SubSeq(stack, 1, Len(stack) - 1)
           kids == IF NodeLevel[node] < maxDepth
                   THEN IntersectingChildren(pc, node, nsegs) ELSE <<>>
       IN TraverseLoop(pc, rest \o kids, QueuePush(q, node), maxDepth, nsegs)

(* ProfileRequest.traverse(startingNode): the queue after it.              *)
Traverse(pc, startingNode, q, maxDepth, nsegs) ==
  TraverseLoop(pc, IntersectingChildren(pc, startingNode, nsegs), q, maxDepth, nsegs)

(***************************************************************************)
(* The program's operations as functions of the world W, a record          *)
(*   req   the ProfileRequests created so far, by id                       *)
(*   ctl   the ProfileController                                           *)
(*   pcs   the PointCloudOctrees                                           *)
(*   prof  the Profiles                                                    *)
(*   now   the wall clock (ms)                                             *)
(*   cb    the callbacks invoked by the running operation, in order        *)
(*   ev    the events dispatched by the running operation, in order        *)
(*   ran   how many times the body of recompute() ran in the operation     *)
(*   err   the error the running operation threw, if any                   *)
(*   exp   the nodes the running operation called traverse() on            *)
(*   seg   the segments its recomputed_segment events carried, in order    *)
(***************************************************************************)
World == [req |-> req, ctl |-> ctl, pcs |-> pcs, prof |-> prof, now |-> now,
          cb |-> <<>>, ev |-> <<>>, ran |-> 0, err |-> "none", exp |-> <<>>,
          seg |-> <<>>]

(* The world once the controller, the pointclouds and the profiles are     *)
(* constructed.                                                            *)
InitWorld ==
  [req |-> <<>>,
   ctl |-> [profile |-> NoProfile, numPoints |-> 0, threshold |-> ScenarioThreshold,
            scheduledRecomputeTime |-> -1, requests |-> <<>>, pointclouds |-> <<>>,
            entries |-> [pc \in Pointclouds |-> -1],
            received |-> 0, spawned |-> {}, lastRun |-> -1],
   pcs |-> [pc \in Pointclouds |->
              [visible |-> TRUE, profileRequests |-> <<>>,
               load |-> [n \in Nodes |-> "unloaded"], malformed |-> {}]],
   prof |-> [p \in Profiles |-> [markers |-> 0, listeners |-> {}]],
   now |-> 0, cb |-> <<>>, ev |-> <<>>, ran |-> 0, err |-> "none", exp |-> <<>>,
   seg |-> <<>>]

(* F applied to the world e, which is evaluated once.                      *)
Then(e, F(_)) == CHOOSE out \in {F(W) : W \in {e}} : TRUE

Markers(W, p) == IF p = NoProfile THEN 0 ELSE W.prof[p].markers

(* new ProfileRequest(pointcloud, profile, maxDepth, callback), and its    *)
(* registration in pointcloud.profileRequests by getPointsInsideProfile.   *)
NewRequestRecord(W, pc, p) ==
  [pc |-> pc, profile |-> p, maxDepth |-> Unlimited,
   temporaryResult |-> NewProfileData(Markers(W, p)),
   gen |-> "none", node |-> 0, cur |-> <<0, 0>>,
   pointsServed |-> 0, highestLevelServed |-> 0, cancelRequested |-> FALSE,
   priorityQueue |-> QueuePush(EmptyQueue, Root),
   nProgress |-> 0, nFinish |-> 0, nCancel |-> 0, filtered |-> {},
   accepted |-> 0, delivered |-> 0]

GetPointsInsideProfile(W, pc, p) ==
  LET id == Len(W.req) + 1 IN
  [W EXCEPT !.req = Append(@, NewRequestRecord(W, pc, p)),
            !.pcs[pc].profileRequests = Append(@, id)]

(* Whether request r is in its pointcloud's profileRequests.               *)
Registered(W, r) ==
  \E i \in 1..Len(W.pcs[W.req[r].pc].profileRequests) :
    W.pcs[W.req[r].pc].profileRequests[i] = r

(* ProfileRequest.finishLevelThenCancel *)
RequestFinishLevelThenCancel(W, r) ==
  IF W.req[r].cancelRequested THEN W
  ELSE [W EXCEPT !.req[r].maxDepth = W.req[r].highestLevelServed,
                 !.req[r].cancelRequested = TRUE]

(* ProfileRequest.cancel *)
RequestCancel(W, r) ==
  [W EXCEPT !.cb = Append(@, <<r, "onCancel">>),
            !.req[r].nCancel = Sat(@ + 1),
            !.req[r].priorityQueue = EmptyQueue,
            !.pcs[W.req[r].pc].profileRequests = Without(@, r)]

RECURSIVE FinishLevelThenCancelAll(_, _)
FinishLevelThenCancelAll(W, rs) ==
  IF rs = <<>> THEN W
  ELSE FinishLevelThenCancelAll(RequestFinishLevelThenCancel(W, Head(rs)), Tail(rs))

(* ProfileController.finishLevelThenCancel *)
ControllerFinishLevelThenCancel(W) ==
  [FinishLevelThenCancelAll(W, W.ctl.requests) EXCEPT !.ctl.requests = <<>>]

RECURSIVE CancelAll(_, _)
CancelAll(W, rs) ==
  IF rs = <<>> THEN W ELSE CancelAll(RequestCancel(W, Head(rs)), Tail(rs))

(* ProfileController.reset *)
Reset(W) ==
  LET W1 == [W EXCEPT !.ctl.numPoints = 0, !.ctl.received = 0] IN
  IF W1.ctl.profile # NoProfile THEN CancelAll(W1, W1.ctl.requests) ELSE W1

(* ProfilePointCloudEntry.addPoints, as the number of points the entry     *)
(* holds; -1 while the pointcloud has no entry.                            *)
EntryAddPoints(W, pc, n) ==
  [W EXCEPT !.ctl.entries[pc] = Max(@, 0) + n, !.ctl.received = @ + n]

RECURSIVE ProgressSegments(_, _, _, _)
ProgressSegments(W, pc, data, s) ==
  IF s > Len(data) THEN W
  ELSE ProgressSegments(
         [EntryAddPoints(W, pc, data[s]) EXCEPT !.ev = Append(@, "recomputed_segment"),
                                                !.seg = Append(@, s)],
         pc, data, s + 1)

(* progressHandler without its closing event.                              *)
ProgressHandlerSilent(W, pc, data) ==
  ProgressSegments([W EXCEPT !.pcs[pc].visible = TRUE], pc, data, 1)

(* ProfileController.progressHandler *)
ProgressHandler(W, pc, data) ==
  LET W1 == [W EXCEPT !.pcs[pc].visible = TRUE]
      W2 == ProgressSegments(W1, pc, data, 1)
  IN [W2 EXCEPT !.ev = Append(@, "recompute_finished")]

(* The onProgress callback recompute() hands to each request.              *)
OnProgress(W, r, data) ==
  Then(ProgressHandler([W EXCEPT !.cb = Append(@, <<r, "onProgress">>),
                                 !.req[r].nProgress = Sat(@ + 1),
                                 !.req[r].delivered = @ + DataSize(data)],
                       W.req[r].pc, data),
       LAMBDA W1 : IF W1.ctl.numPoints > W1.ctl.threshold
                   THEN ControllerFinishLevelThenCancel(W1) ELSE W1)

(* The onFinish callback: a console.log.                                   *)
OnFinish(W, r) ==
  [W EXCEPT !.cb = Append(@, <<r, "onFinish">>), !.req[r].nFinish = Sat(@ + 1)]

RECURSIVE SpawnRequests(_, _)
SpawnRequests(W, pcseq) ==
  IF pcseq = <<>> THEN W
  ELSE LET W1 == GetPointsInsideProfile(W, Head(pcseq), W.ctl.profile)
       IN SpawnRequests([W1 EXCEPT !.ctl.requests = Append(@, Len(W1.req))],
                        Tail(pcseq))

(* recompute() without the visible filter.                                 *)
VisiblePointcloudsUnfiltered(W) == W.ctl.pointclouds

VisiblePointclouds(W) == SelectSeq(W.ctl.pointclouds, LAMBDA pc : W.pcs[pc].visible)

(* ProfileController.recompute *)
Recompute(W) ==
  IF W.ctl.profile = NoProfile THEN W
  ELSE IF W.ctl.scheduledRecomputeTime >= 0 /\ W.ctl.scheduledRecomputeTime > W.now
  THEN W
  ELSE LET W1 == [W EXCEPT !.ctl.scheduledRecomputeTime = W.now + DebounceMs]
           W2 == [W1 EXCEPT !.ctl.scheduledRecomputeTime = -1, !.ran = @ + 1]
           W3 == Reset(W2)
           W4 == SpawnRequests(W3, VisiblePointclouds(W3))
       IN [W4 EXCEPT !.ctl.spawned = (Len(W.req) + 1)..Len(W4.req),
                     !.ctl.lastRun = W.now]

(***************************************************************************)
(* The filter, getPointsInsideProfile over getAccepted, for one node.      *)
(* A cursor <<s, c>> is a place where the generators can yield false:      *)
(* within getAccepted for segment s at its c-th probe (i = 1000 c), or,    *)
(* for c = NumProbes, after getAccepted and before segment.points.add.     *)
(***************************************************************************)
NumProbes(n) == (NodeNumPoints[n] + YieldProbe - 1) \div YieldProbe
FilterStart == <<0, 0>>
FilterDone(data) == <<Len(data) + 1, 0>>
SuspendPoints(pc, n, data) ==
  IF NodeNumPoints[n] = 0 THEN {}
  ELSE {<<s, c>> : s \in {t \in 1..Len(data) : SegmentHit(pc, n, t)}, c \in 0..NumProbes(n)}

(* The yields open to the filter of node n resumed at cursor from.         *)
FilterStops(pc, n, data, from) ==
  {c \in SuspendPoints(pc, n, data) : CurLess(from, c)} \cup {FilterDone(data)}

(* target.segments[s].points.add(points) for every segment whose add lies  *)
(* between the cursors from and stop.                                      *)
FilterAdds(data, pc, n, from, stop) ==
  [s \in 1..Len(data) |->
     data[s] + IF /\ NodeNumPoints[n] > 0
                  /\ SegmentHit(pc, n, s)
                  /\ CurLeq(from, <<s, NumProbes(n)>>)
                  /\ CurLess(<<s, NumProbes(n)>>, stop)
               THEN NumAccepted(pc, n, s) ELSE 0]

(* updateGenerator finishing without handing over what temporaryResult     *)
(* still holds.                                                            *)
FinalizeWithoutFlush(W, r) ==
  LET rec == W.req[r]
      W1 == IF QueueSize(rec.priorityQueue) # 0 THEN W
            ELSE [OnFinish(W, r) EXCEPT !.pcs[rec.pc].profileRequests = Without(@, r)]
  IN [W1 EXCEPT !.req[r].gen = "end"]

(* updateGenerator going to its trailing yield without lines 192-206.      *)
FinalizeYieldOnly(W, r) == [W EXCEPT !.req[r].gen = "end"]

(* updateGenerator, lines 192-208: the queue is empty.                     *)
Finalize(W, r) ==
  LET rec == W.req[r]
      W1 == IF QueueSize(rec.priorityQueue) # 0 THEN W
            ELSE LET size == DataSize(rec.temporaryResult)
                     Wa == IF size > 0
                           THEN Then(OnProgress(
                                       [W EXCEPT !.req[r].pointsServed = @ + size],
                                       r, rec.temporaryResult),
                                     LAMBDA Wp :
                                       [Wp EXCEPT !.req[r].temporaryResult =
                                          NewProfileData(Markers(Wp, rec.profile))])
                           ELSE W
                     Wb == Then(Wa, LAMBDA Wf : OnFinish(Wf, r))
                 IN [Wb EXCEPT !.pcs[rec.pc].profileRequests = Without(@, r)]
  IN [W1 EXCEPT !.req[r].gen = "end"]

(* updateGenerator, lines 185-189, then the rest.                          *)
AfterFilter(W, r) ==
  LET rec == W.req[r]
      size == DataSize(rec.temporaryResult)
      W1 == IF size > ProgressBatch
            THEN Then(OnProgress([W EXCEPT !.req[r].pointsServed = @ + size],
                                 r, rec.temporaryResult),
                      LAMBDA Wp : [Wp EXCEPT !.req[r].temporaryResult =
                                     NewProfileData(Markers(Wp, rec.profile))])
            ELSE W
  IN Then(W1, LAMBDA Wf : Finalize(Wf, r))

(* The attribute copy of lines 343-369 throws for a node one of whose      *)
(* attribute arrays is not a whole number of elements per point: at the    *)
(* first segment the node intersects, after getAccepted and before         *)
(* segment.points.add.                                                     *)
FilterThrows(W, r, n, from, stop) ==
  /\ n \in W.pcs[W.req[r].pc].malformed
  /\ NodeNumPoints[n] > 0
  /\ \E s \in 1..Len(W.req[r].temporaryResult) :
       /\ SegmentHit(W.req[r].pc, n, s)
       /\ CurLeq(from, <<s, NumProbes(n)>>)
       /\ CurLess(<<s, NumProbes(n)>>, stop)

(* Runs the filter of node n from cursor from up to stop.  An error leaves *)
(* update() with the generator closed: the next update() finds it done.    *)
FilterRun(W, r, n, from, stop) ==
  LET rec == W.req[r]
      added == FilterAdds(rec.temporaryResult, rec.pc, n, from, stop)
      W1 == [W EXCEPT !.req[r].temporaryResult = added,
                      !.req[r].accepted = @ + DataSize(added) - DataSize(rec.temporaryResult)]
  IN IF FilterThrows(W, r, n, from, stop)
     THEN [W EXCEPT !.err = "Error", !.req[r].gen = "end",
                    !.req[r].node = 0, !.req[r].cur = FilterStart]
     ELSE IF stop = FilterDone(rec.temporaryResult)
     THEN Then([W1 EXCEPT !.req[r].node = 0, !.req[r].cur = FilterStart],
               LAMBDA Wf : AfterFilter(Wf, r))
     ELSE [W1 EXCEPT !.req[r].gen = "filter", !.req[r].node = n, !.req[r].cur = stop]

(* update() without the level test of line 155.                           *)
PopOutcomeNoLevelTest(W, r, n) ==
  IF n = 0 THEN "empty"
  ELSE IF W.pcs[W.req[r].pc].load[n] = "loaded" THEN "serve"
  ELSE "load"

(* update() dropping every entry once cancelRequested is set.              *)
PopOutcomeDropsAll(W, r, n) ==
  IF n = 0 THEN "empty"
  ELSE IF W.req[r].cancelRequested \/ NodeLevel[n] > W.req[r].maxDepth THEN "discard"
  ELSE IF W.pcs[W.req[r].pc].load[n] = "loaded" THEN "serve"
  ELSE "load"

(* What update() does with the entry it pops.                              *)
PopOutcome(W, r, n) ==
  IF n = 0 THEN "empty"
  ELSE IF NodeLevel[n] > W.req[r].maxDepth THEN "discard"
  ELSE IF W.pcs[W.req[r].pc].load[n] = "loaded" THEN "serve"
  ELSE "load"

(* doTraverse without the level test of line 168.                          *)
DoTraverseIfChildren(pc, n) == NodeHasChildren(pc, n)

(* doTraverse of line 168 for node n of pointcloud pc.                     *)
DoTraverse(pc, n) ==
  \/ NodeLevel[n] = 0
  \/ /\ NodeLevel[n] % HierarchyStepSize(pc) = 0
     /\ NodeHasChildren(pc, n)

(* updateGenerator from its start, n being the entry pop() returns (0 when *)
(* the queue is empty).                                                    *)
StartGenerator(W, r, n, stop) ==
  LET rec == W.req[r]
      out == PopOutcome(W, r, n)
      popped == QueueRemove(rec.priorityQueue, n)
  IN CASE out = "empty" -> Finalize(W, r)
       [] out = "discard" -> Then([W EXCEPT !.req[r].priorityQueue = popped],
                                  LAMBDA Wf : Finalize(Wf, r))
       [] out = "load" ->
            Then([W EXCEPT !.pcs[rec.pc].load[n] =
                             IF @ = "unloaded" THEN "loading" ELSE @,
                           !.req[r].priorityQueue = QueuePush(popped, n)],
                 LAMBDA Wf : Finalize(Wf, r))
       [] out = "serve" ->
            LET doTraverse == DoTraverse(rec.pc, n)
                W1 == [W EXCEPT
                         !.req[r].filtered = @ \cup {n},
                         !.exp = IF doTraverse THEN Append(@, n) ELSE @,
                         !.req[r].highestLevelServed = Max(NodeLevel[n], @),
                         !.req[r].priorityQueue =
                            IF doTraverse
                            THEN Traverse(rec.pc, n, popped, rec.maxDepth, NumSegments(Markers(W, rec.profile)))
                            ELSE popped]
            IN Then(W1, LAMBDA Wf : FilterRun(Wf, r, n, FilterStart, stop))

(* ProfileRequest.update *)
UpdateRequest(W, r, n, stop) ==
  LET rec == W.req[r] IN
  CASE rec.gen = "end" -> [W EXCEPT !.req[r].gen = "none"]
    [] rec.gen = "filter" -> FilterRun(W, r, rec.node, rec.cur, stop)
    [] rec.gen = "none" -> StartGenerator(W, r, n, stop)

(* The entries and yields update() can meet in the current state.          *)
UpdatePops(r) ==
  IF req[r].gen = "none" /\ QueueSize(req[r].priorityQueue) > 0
  THEN PopChoices(req[r].priorityQueue) ELSE {0}
UpdateStops(r, n) ==
  IF req[r].gen = "filter"
  THEN FilterStops(req[r].pc, req[r].node, req[r].temporaryResult, req[r].cur)
  ELSE IF req[r].gen = "none" /\ PopOutcome(World, r, n) = "serve"
  THEN FilterStops(req[r].pc, n, req[r].temporaryResult, FilterStart)
  ELSE {FilterDone(req[r].temporaryResult)}

(***************************************************************************)
(* Profile: markers and the events their mutation dispatches.              *)
(***************************************************************************)
Dispatch(W, p, type) ==
  LET W1 == [W EXCEPT !.ev = Append(@, type)] IN
  IF type \in W1.prof[p].listeners THEN Recompute(W1) ELSE W1

(* Profile.setPosition *)
ProfileSetPosition(W, p) == Dispatch(W, p, "marker_moved")

(* Profile.addMarker *)
ProfileAddMarker(W, p) ==
  ProfileSetPosition(Dispatch([W EXCEPT !.prof[p].markers = @ + 1], p, "marker_added"), p)

MutationEvents == {"marker_moved", "marker_added", "marker_removed", "width_changed"}

(* ProfileController.setProfile *)
ControllerSetProfile(W, p) ==
  LET old == W.ctl.profile
      W1 == IF old # NoProfile /\ old # p
            THEN [W EXCEPT !.prof[old].listeners = @ \ MutationEvents] ELSE W
      W2 == [W1 EXCEPT !.ctl.profile = p, !.prof[p].listeners = @ \ MutationEvents]
  IN Recompute(W2)

(* ProfileController.addPointcloud *)
ControllerAddPointcloud(W, pc) ==
  IF \E i \in 1..Len(W.ctl.pointclouds) : W.ctl.pointclouds[i] = pc THEN W
  ELSE Recompute([W EXCEPT !.ctl.pointclouds = Append(@, pc)])

(* ProfileController.removePointcloud *)
ControllerRemovePointcloud(W, pc) ==
  [W EXCEPT !.ctl.pointclouds = SelectSeq(@, LAMBDA x : x # pc)]

(***************************************************************************)
(* The state machine.  last records what the latest operation did.         *)
(***************************************************************************)
Requests == 1..Len(req)

(* calc holds the arguments and the result of a function applied on its   *)
(* own; the program's operations leave it alone.                           *)
NoCalc == [fn |-> "none"]

Idle == [op |-> "init", arg |-> 0, node |-> 0, act |-> "none",
         cb |-> <<>>, ev |-> <<>>, ran |-> 0, err |-> "none", exp |-> <<>>,
         seg |-> <<>>]

Commit(after, op, arg, node, act) ==
  \E W \in {after} :
    /\ Len(W.req) <= MaxRequests
    /\ req' = W.req
    /\ ctl' = W.ctl
    /\ pcs' = W.pcs
    /\ prof' = W.prof
    /\ now' = W.now
    /\ calc' = calc
    /\ last' = [op |-> op, arg |-> arg, node |-> node, act |-> act,
                cb |-> W.cb, ev |-> W.ev, ran |-> W.ran, err |-> W.err,
                exp |-> W.exp, seg |-> W.seg]

StartsWith(W, c) ==
  /\ req = W.req
  /\ ctl = W.ctl
  /\ pcs = W.pcs
  /\ prof = W.prof
  /\ now = W.now
  /\ last = Idle
  /\ calc = c

StartsAs(W) == StartsWith(W, NoCalc)

Init == StartsAs(InitWorld)

(* request.update() *)
UpdateCall(r) ==
  \E n \in UpdatePops(r) : \E stop \in UpdateStops(r, n) :
    Commit(UpdateRequest(World, r, n, stop), "update", r,
           IF req[r].gen = "filter" THEN req[r].node ELSE n,
           CASE req[r].gen = "end" -> "idle"
             [] req[r].gen = "filter" -> "resume"
             [] OTHER -> PopOutcome(World, r, n))

(* The host's frame loop updates a request of pointcloud.profileRequests. *)
HostUpdate(r) == Registered(World, r) /\ UpdateCall(r)

(* update() called on any request, registered or not. *)
Update(r) == UpdateCall(r)

(* The host calls request.cancel(). *)
Cancel(r) == Commit(RequestCancel(World, r), "cancel", r, 0, "none")

(* The host calls request.finishLevelThenCancel(). *)
FinishLevelThenCancel(r) ==
  Commit(RequestFinishLevelThenCancel(World, r), "finishLevelThenCancel", r, 0, "none")

(* A node whose load() was requested finishes loading. *)
LoadComplete(pc, n) ==
  /\ pcs[pc].load[n] = "loading"
  /\ pcs' = [pcs EXCEPT ![pc].load[n] = "loaded"]
  /\ last' = [Idle EXCEPT !.op = "loaded", !.arg = pc, !.node = n]
  /\ UNCHANGED <<req, ctl, prof, now, calc>>

(* The host shows or hides a pointcloud. *)
SetVisible(pc, b) ==
  /\ pcs[pc].visible # b
  /\ pcs' = [pcs EXCEPT ![pc].visible = b]
  /\ last' = [Idle EXCEPT !.op = "visible", !.arg = pc]
  /\ UNCHANGED <<req, ctl, prof, now, calc>>

(* Wall-clock time passes. *)
Tick ==
  /\ now < MaxTicks * TickMs
  /\ now' = now + TickMs
  /\ last' = [Idle EXCEPT !.op = "tick"]
  /\ UNCHANGED <<req, ctl, pcs, prof, calc>>

SetProfile(p) == Commit(ControllerSetProfile(World, p), "setProfile", p, 0, "none")

AddPointcloud(pc) ==
  Commit(ControllerAddPointcloud(World, pc), "addPointcloud", pc, 0, "none")

RemovePointcloud(pc) ==
  Commit(ControllerRemovePointcloud(World, pc), "removePointcloud", pc, 0, "none")

RecomputeCall == Commit(Recompute(World), "recompute", 0, 0, "none")

ResetCall == Commit(Reset(World), "reset", 0, 0, "none")

FinishLevelThenCancelCall ==
  Commit(ControllerFinishLevelThenCancel(World), "ctlFinishLevelThenCancel", 0, 0, "none")

AddMarker(p) ==
  /\ prof[p].markers < MaxMarkers
  /\ Commit(ProfileAddMarker(World, p), "addMarker", p, 0, "none")

SetPosition(p) ==
  /\ prof[p].markers > 0
  /\ Commit(ProfileSetPosition(World, p), "setPosition", p, 0, "none")

(* The program as its host drives it: requests are created, cancelled and  *)
(* level-finished by the controller, and updated while registered.         *)
Next ==
  \/ \E r \in Requests : HostUpdate(r)
  \/ \E pc \in Pointclouds, n \in Nodes : LoadComplete(pc, n)
  \/ \E p \in Profiles : SetProfile(p)
  \/ \E pc \in Pointclouds : AddPointcloud(pc)
  \/ RecomputeCall
  \/ ResetCall
  \/ FinishLevelThenCancelCall
  \/ \E p \in Profiles : AddMarker(p)

Spec == Init /\ [][Next]_vars

(* One request, created the way example/main.ts does (addPointcloud, the   *)
(* markers, then setProfile), and its interface called in any order.  The  *)
(* controller passes null for maxDepth; the constructor gets either that   *)
(* null, which compares as 0, or no value, and then its default.           *)
InitApi ==
  \E k \in 0..(MaxMarkers + 1), d \in {0, Unlimited} :
    StartsAs([ControllerSetProfile(
                [InitWorld EXCEPT !.ctl.pointclouds = <<1>>, !.prof[1].markers = k], 1)
              EXCEPT !.req[1].maxDepth = d])

NextApi ==
  \/ \E r \in Requests : Update(r)
  \/ \E r \in Requests : Cancel(r)
  \/ \E r \in Requests : FinishLevelThenCancel(r)
  \/ \E pc \in Pointclouds, n \in Nodes : LoadComplete(pc, n)
  \/ \E p \in Profiles : AddMarker(p)

SpecApi == InitApi /\ [][NextApi]_vars

(* The same over either octree: the one of hierarchyStepSize 1 or a chain  *)
(* of hierarchyStepSize 2.                                                 *)
InitOctrees ==
  \E pc \in Pointclouds, k \in 0..(MaxMarkers + 1), d \in {0, Unlimited} :
    StartsAs([ControllerSetProfile(
                [InitWorld EXCEPT !.ctl.pointclouds = <<pc>>, !.prof[1].markers = k], 1)
              EXCEPT !.req[1].maxDepth = d])

SpecOctrees == InitOctrees /\ [][NextApi]_vars

(* One request that the host keeps updating while it is registered, with   *)
(* every requested load completing; nobody calls cancel().                 *)
NextDrain ==
  \/ \E r \in Requests : HostUpdate(r)
  \/ \E r \in Requests : FinishLevelThenCancel(r)
  \/ \E pc \in Pointclouds, n \in Nodes : LoadComplete(pc, n)
  \/ \E p \in Profiles : AddMarker(p)

SpecDrain ==
  /\ InitApi
  /\ [][NextDrain]_vars
  /\ WF_vars(\E r \in Requests : HostUpdate(r))
  /\ WF_vars(\E pc \in Pointclouds, n \in Nodes : LoadComplete(pc, n))

(* The controller under a running clock.                                   *)
NextClock ==
  \/ Tick
  \/ \E r \in Requests : HostUpdate(r)
  \/ \E pc \in Pointclouds, n \in Nodes : LoadComplete(pc, n)
  \/ \E p \in Profiles : SetProfile(p)
  \/ \E pc \in Pointclouds : AddPointcloud(pc)
  \/ RecomputeCall
  \/ \E p \in Profiles : AddMarker(p)
  \/ \E p \in Profiles : SetPosition(p)

SpecClock == Init /\ [][NextClock]_vars

(* The controller over pointclouds the host shows, hides and adds, the     *)
(* profile having its markers from the start.                              *)
InitVisible ==
  \E k \in 0..MaxMarkers :
    StartsAs([InitWorld EXCEPT !.prof = [p \in Profiles |-> [@[p] EXCEPT !.markers = k]]])

NextVisible ==
  \/ \E pc \in Pointclouds, b \in BOOLEAN : SetVisible(pc, b)
  \/ \E pc \in Pointclouds : AddPointcloud(pc)
  \/ \E p \in Profiles : SetProfile(p)
  \/ RecomputeCall
  \/ \E r \in Requests : HostUpdate(r)
  \/ \E pc \in Pointclouds, n \in Nodes : LoadComplete(pc, n)

SpecVisible == InitVisible /\ [][NextVisible]_vars

(* The controller over pointclouds the host adds and removes while their   *)
(* requests are updated by the frame loop.                                 *)
NextRemove ==
  \/ \E pc \in Pointclouds : AddPointcloud(pc)
  \/ \E pc \in Pointclouds : RemovePointcloud(pc)
  \/ \E p \in Profiles : SetProfile(p)
  \/ \E r \in Requests : HostUpdate(r)
  \/ \E pc \in Pointclouds, n \in Nodes : LoadComplete(pc, n)

SpecRemove == InitVisible /\ [][NextRemove]_vars

(***************************************************************************)
(* Geometry of the filter, in exact arithmetic.  A Vector3 with integer    *)
(* coordinates is a tuple; a vector or a number that a division produced   *)
(* is a numerator over a positive denominator.  Marker sequences are       *)
(* those whose ground lengths are integers, the length 0 included.         *)
(***************************************************************************)
MaxGeomMarkers == 3
MaxCoord == 12

MarkerChoices ==
  {<<0, 0, 0>>, <<10, 0, 0>>, <<10, 10, 0>>, <<10, 0, 5>>, <<4, 3, 2>>}
WidthChoices == {2, 4}
PositionChoices ==
  {<<x, y, z>> : x \in {0, 5, 9, 10, 11, 12}, y \in {-2, -1, 0, 1, 2, 5, 10},
                 z \in {0, 7}}

Abs(x) == IF x < 0 THEN -x ELSE x
AddVectors(a, b) ==
  <<a[1] + b[1], a[2] + b[2], a[3] + b[3]>>
Sub(a, b) == <<a[1] - b[1], a[2] - b[2], a[3] - b[3]>>
Dot(a, b) == a[1] * b[1] + a[2] * b[2] + a[3] * b[3]
Cross(a, b) ==
  <<a[2] * b[3] - a[3] * b[2], a[3] * b[1] - a[1] * b[3],
    a[1] * b[2] - a[2] * b[1]>>
SetZ(a, z) == <<a[1], a[2], z>>
IsSquare(n) == \E k \in 0..(2 * MaxCoord) : k * k = n
Sqrt(n) == CHOOSE k \in 0..(2 * MaxCoord) : k * k = n
Length(a) == Sqrt(Dot(a, a))

(* Vector3.normalize() is divideScalar(length() || 1): the zero vector     *)
(* stays the zero vector.  v is num / den; so is the result.               *)
Normalize(v) ==
  LET l == Length(v.num)
  IN  IF l = 0 THEN v ELSE [num |-> v.num, den |-> l]

(* Plane.setFromNormalAndCoplanarPoint and Plane.distanceToPoint.          *)
SetFromNormalAndCoplanarPoint(normal, point) ==
  [normal   |-> normal,
   constant |-> [num |-> -Dot(point.num, normal.num),
                 den |-> point.den * normal.den]]
DistanceToPoint(plane, pos) ==
  [num |-> Dot(plane.normal.num, pos) * plane.constant.den
             + plane.constant.num * plane.normal.den,
   den |-> plane.normal.den * plane.constant.den]

RAbs(a) == [num |-> Abs(a.num), den |-> a.den]
RLess(a, b) == a.num * b.den < b.num * a.den
Half(n) == [num |-> n, den |-> 2]

(* One iteration of the loop of the ProfileData constructor.               *)
NewSegment(start, end) ==
  LET startGround == SetZ(start, 0)
      endGround   == SetZ(end, 0)
      center      == [num |-> AddVectors(endGround, startGround), den |-> 2]
      length      == Length(Sub(endGround, startGround))
      side        == Normalize([num |-> Sub(endGround, startGround), den |-> 1])
      up          == <<0, 0, 1>>
      forward     == Normalize([num |-> Cross(side.num, up), den |-> side.den])
  IN  [start     |-> start,
       end       |-> end,
       cutPlane  |-> SetFromNormalAndCoplanarPoint(
                       forward, [num |-> startGround, den |-> 1]),
       halfPlane |-> SetFromNormalAndCoplanarPoint(side, center),
       length    |-> length]

ProfileDataSegments(points) ==
  [i \in 1..Max(Len(points) - 1, 0) |-> NewSegment(points[i], points[i + 1])]

(* getAccepted for a node of one point at world position pos: the          *)
(* mileages and positions it yields.                                       *)
AcceptsInclusive(distance, centerDistance, width, length) ==
  /\ ~RLess(Half(width), distance)
  /\ ~RLess(Half(length), centerDistance)
Accepts(distance, centerDistance, width, length) ==
  RLess(distance, Half(width)) /\ RLess(centerDistance, Half(length))

GetAccepted(pos, segment, segmentDir, width, totalMileage) ==
  LET distance       == RAbs(DistanceToPoint(segment.cutPlane, pos))
      centerDistance == RAbs(DistanceToPoint(segment.halfPlane, pos))
      svp            == Sub(pos, segment.start)
      localMileage   == [num |-> Dot(segmentDir.num, svp), den |-> segmentDir.den]
  IN  IF Accepts(distance, centerDistance, width, segment.length)
      THEN << [mileage  |-> [num |-> localMileage.num
                                       + totalMileage * localMileage.den,
                             den |-> localMileage.den],
               position |-> pos] >>
      ELSE << >>

(* The segment loop of ProfileRequest.getPointsInsideProfile for that      *)
(* node; intersects is the set of segments its bounding sphere reaches.    *)
NextMileageOnlyWhenHit(segment, hit, totalMileage) ==
  IF hit THEN totalMileage + segment.length ELSE totalMileage
NextMileage(segment, hit, totalMileage) == totalMileage + segment.length

RECURSIVE SegmentLoop(_, _, _, _, _, _)
SegmentLoop(segments, i, pos, width, intersects, totalMileage) ==
  IF i > Len(segments) THEN << >>
  ELSE LET segment    == segments[i]
           sv         == SetZ(Sub(segment.end, segment.start), 0)
           segmentDir == Normalize([num |-> sv, den |-> 1])
       IN  << IF i \in intersects
              THEN GetAccepted(pos, segment, segmentDir, width, totalMileage)
              ELSE << >> >>
           \o SegmentLoop(segments, i + 1, pos, width, intersects,
                          NextMileage(segment, i \in intersects, totalMileage))

GroundLengthsAreIntegers(points) ==
  \A i \in 1..(Len(points) - 1) :
    IsSquare(Dot(SetZ(Sub(points[i + 1], points[i]), 0),
                 SetZ(Sub(points[i + 1], points[i]), 0)))

MarkerSequences ==
  {points \in UNION {[1..n -> MarkerChoices] : n \in 0..MaxGeomMarkers} :
     GroundLengthsAreIntegers(points)}

InitGeom ==
  \E points \in MarkerSequences, width \in WidthChoices,
     pos \in PositionChoices, intersects \in SUBSET (1..(MaxGeomMarkers - 1)) :
    StartsWith(InitWorld,
               [fn |-> "profile", points |-> points, width |-> width,
                pos |-> pos, intersects |-> intersects,
                segments |-> << >>, out |-> << >>])

ConstructProfileData ==
  /\ calc.fn = "profile"
  /\ calc' = [calc EXCEPT !.fn = "data",
                          !.segments = ProfileDataSegments(calc.points)]
  /\ UNCHANGED <<req, ctl, pcs, prof, now, last>>

FilterNode ==
  /\ calc.fn = "data"
  /\ calc' = [calc EXCEPT !.fn = "filtered",
                          !.out = SegmentLoop(calc.segments, 1, calc.pos, calc.width,
                                              calc.intersects, 0)]
  /\ UNCHANGED <<req, ctl, pcs, prof, now, last>>

NextGeom == ConstructProfileData \/ FilterNode

SpecGeom == InitGeom /\ [][NextGeom]_vars

(***************************************************************************)
(* Points: a count of points, one typed array per attribute, a bounding    *)
(* box.  A box is an interval here, empty as new Box3() is.                *)
(***************************************************************************)
MaxPoints == 2

Attributes == {"position", "color", "mileage"}

(* Elements per point found in the arrays the filter copies: position 3,   *)
(* mileage 1, color 4 or 3; 0 is an attribute the buffer does not hold.    *)
ElementsPerPointChoices(attribute) ==
  CASE attribute = "position" -> {0, 3}
    [] attribute = "color"    -> {0, 3, 4}
    [] attribute = "mileage"  -> {0, 1}

EmptyBox == [empty |-> TRUE, min |-> 0, max |-> 0]
(* An assignment in place of the union.                                    *)
BoxOverwrite(a, b) == b
BoxUnion(a, b) ==
  IF b.empty THEN a
  ELSE IF a.empty THEN b
  ELSE [empty |-> FALSE, min |-> Min(a.min, b.min), max |-> Max(a.max, b.max)]

(* A buffer of n points whose elements are tag + 1, tag + 2, ...: never 0, *)
(* which is what a fresh typed array holds.                                *)
NewPoints(n, epp, tag) ==
  [numPoints   |-> n,
   data        |-> [a \in Attributes |-> [i \in 1..(n * epp[a]) |-> tag + i]],
   boundingBox |-> IF n = 0 THEN EmptyBox
                   ELSE [empty |-> FALSE, min |-> tag, max |-> tag + n]]

PointsChoices(tag) ==
  {NewPoints(n, epp, tag) :
     n \in 0..MaxPoints,
     epp \in {f \in [Attributes -> 0..4] :
                \A a \in Attributes : f[a] \in ElementsPerPointChoices(a)}}

(* new Type(length) followed by set(source, offset).                       *)
TypedArrayWith(length, source, offset) ==
  [i \in 1..length |->
     IF i > offset /\ i <= offset + Len(source) THEN source[i - offset] ELSE 0]

SizeOfReceiverOnly(currentSize, additionalSize) == currentSize
NewSize(currentSize, additionalSize) == currentSize + additionalSize

OffsetZero(elementsPerPoint, currentSize) == 0
TailOffset(elementsPerPoint, currentSize) == elementsPerPoint * currentSize

(* Points.add; the divisions are exact for the buffers drawn here.         *)
PointsAdd(this, points) ==
  LET currentSize     == this.numPoints
      additionalSize  == points.numPoints
      newSize         == NewSize(currentSize, additionalSize)
      thisAttributes  == {a \in Attributes : Len(this.data[a]) # 0}
      otherAttributes == {a \in Attributes : Len(points.data[a]) # 0}
      attributes      == thisAttributes \cup otherAttributes
      Merged(a) ==
        IF a \in thisAttributes /\ a \in otherAttributes
        THEN TypedArrayWith(Len(this.data[a]) + Len(points.data[a]),
                            this.data[a] \o points.data[a], 0)
        ELSE IF a \in thisAttributes /\ a \notin otherAttributes
        THEN LET elementsPerPoint == Len(this.data[a]) \div this.numPoints
             IN  TypedArrayWith(elementsPerPoint * newSize, this.data[a], 0)
        ELSE LET elementsPerPoint == Len(points.data[a]) \div additionalSize
             IN  TypedArrayWith(elementsPerPoint * newSize, points.data[a],
                                TailOffset(elementsPerPoint, currentSize))
  IN  [numPoints   |-> newSize,
       data        |-> [a \in Attributes |->
                          IF a \in attributes THEN Merged(a) ELSE this.data[a]],
       boundingBox |-> BoxUnion(this.boundingBox, points.boundingBox)]

InitPoints ==
  \E a \in PointsChoices(100), b \in PointsChoices(200) :
    StartsWith(InitWorld,
               [fn |-> "points", a |-> a, b |-> b, old |-> a, error |-> "none"])

Add ==
  /\ calc.fn = "points"
  /\ calc' = [calc EXCEPT !.fn = "added", !.a = PointsAdd(calc.a, calc.b)]
  /\ UNCHANGED <<req, ctl, pcs, prof, now, last>>

NextPoints == Add

SpecPoints == InitPoints /\ [][NextPoints]_vars

(***************************************************************************)
(* ProfilePointCloudEntry: the batches of its scene node.  A batch is its  *)
(* drawRange.count and the writes made into its arrays, each write a run   *)
(* of consecutive slots taking consecutive points; a point is numbered by  *)
(* its arrival.  The loop of addPoints is taken a run at a time: the       *)
(* iterations up to the next one at which line 97 holds.                   *)
(***************************************************************************)
MaxAddCalls == 3
BatchSize == 10000

AddSizes == {0, 1, 4000, 6000, 10000, 25000}
ProjectedBoxChoices ==
  {[empty |-> FALSE, min |-> 0, max |-> 1], [empty |-> FALSE, min |-> 1, max |-> 3]}

NewEntry ==
  [points |-> << >>, batches |-> << >>, projectedBox |-> EmptyBox, numAdded |-> 0]

CreateNewBatch(batches) == Append(batches, [count |-> 0, writes |-> << >>])

(* Iterations left before updateRange.start + updateRange.count >=         *)
(* batchSize holds.                                                        *)
RoomOneMore(start, count) == BatchSize + 1 - (start + count)
Room(start, count) == BatchSize - (start + count)

RECURSIVE AddPointsLoop(_, _, _, _, _, _)
AddPointsLoop(batches, start, count, i, numPoints, firstId) ==
  IF i >= numPoints THEN batches
  ELSE LET full     == Room(start, count) <= 0 /\ batches # << >>
           current  == IF full THEN CreateNewBatch(batches) ELSE batches
           start1   == IF full THEN 0 ELSE start
           count1   == IF full THEN 0 ELSE count
           run      == Max(1, Min(numPoints - i, Room(start1, count1)))
           b        == Len(current)
           written  == [current EXCEPT
                          ![b].writes = Append(@, [slot |-> start1 + count1,
                                                  id   |-> firstId + i,
                                                  len  |-> run]),
                          ![b].count = @ + run]
       IN  AddPointsLoop(written, start1, count1 + run, i + run, numPoints, firstId)

(* ProfilePointCloudEntry.addPoints(points), points having numPoints       *)
(* points and the projected box box.                                       *)
EntryAddPointsBatches(entry, numPoints, box) ==
  LET batches == IF entry.batches = << >> THEN CreateNewBatch(entry.batches)
                 ELSE entry.batches
      start   == batches[Len(batches)].count
      points  == Append(entry.points, box)
  IN  [points       |-> points,
       batches      |-> AddPointsLoop(batches, start, 0, 0, numPoints,
                                      entry.numAdded + 1),
       projectedBox |-> LET RECURSIVE Reduce(_, _)
                            Reduce(a, k) == IF k > Len(points) THEN a
                                            ELSE Reduce(BoxUnion(a, points[k]), k + 1)
                        IN  Reduce(EmptyBox, 1),
       numAdded     |-> entry.numAdded + numPoints]

InitEntry ==
  StartsWith(InitWorld, [fn |-> "entry", entry |-> NewEntry, calls |-> 0])

AddPoints(numPoints, box) ==
  /\ calc.fn = "entry"
  /\ calc.calls < MaxAddCalls
  /\ calc' = [calc EXCEPT !.entry = EntryAddPointsBatches(calc.entry, numPoints, box),
                          !.calls = @ + 1]
  /\ UNCHANGED <<req, ctl, pcs, prof, now, last>>

NextEntry ==
  \E numPoints \in AddSizes :
    \E box \in IF numPoints = 0 THEN {EmptyBox} ELSE ProjectedBoxChoices :
      AddPoints(numPoints, box)

SpecEntry == InitEntry /\ [][NextEntry]_vars

(* A request whose octree holds a node with a malformed attribute array.   *)
InitMalformed ==
  \E k \in 0..(MaxMarkers + 1), d \in {0, Unlimited}, bad \in {{Root}, {2}, {4}} :
    StartsAs([ControllerSetProfile(
                [InitWorld EXCEPT !.ctl.pointclouds = <<1>>, !.prof[1].markers = k,
                                  !.pcs[1].malformed = bad], 1)
              EXCEPT !.req[1].maxDepth = d])

NextMalformed ==
  \/ \E r \in Requests : HostUpdate(r)
  \/ \E r \in Requests : FinishLevelThenCancel(r)
  \/ \E pc \in Pointclouds, n \in Nodes : LoadComplete(pc, n)

SpecMalformed == InitMalformed /\ [][NextMalformed]_vars

(***************************************************************************)
(* The filter of one node as the generators run it: getAccepted a point    *)
(* at a time, yielding false at a probe (i % 1000 = 0) when more than 4 ms *)
(* have passed, and getPointsInsideProfile relaying those yields, yielding *)
(* again after getAccepted, and adding the accepted points to the segment. *)
(* Whether 4 ms have passed is the caller's choice here.                   *)
(***************************************************************************)
NodePointChoices ==
  { << <<5, 0, 0>>, <<10, 5, 0>>, <<9, 0, 7>>, <<10, 1, 0>> >>,
    << <<0, 0, 0>>, <<5, 1, 0>> >>,
    << <<10, 1, 0>>, <<9, 0, 0>>, <<11, 5, 7>>, <<5, -1, 0>> >> }

(* What a generator's local variable holds when it is resumed.             *)
LostOverYield(accepted) == << >>
KeptOverYield(accepted) == accepted

(* The loop body of getAccepted for point i (from 0) of the node.          *)
AcceptedWith(accepted, node, i, segment, width, totalMileage) ==
  LET sv         == SetZ(Sub(segment.end, segment.start), 0)
      segmentDir == Normalize([num |-> sv, den |-> 1])
      one        == GetAccepted(node[i + 1], segment, segmentDir, width, totalMileage)
  IN  accepted \o [k \in 1..Len(one) |->
                     [index |-> i, mileage |-> one[k].mileage,
                      position |-> one[k].position]]

InitYield ==
  \E points \in {m \in MarkerSequences : Len(m) >= 2}, node \in NodePointChoices,
     intersects \in SUBSET (1..(MaxGeomMarkers - 1)) :
    StartsWith(InitWorld,
               [fn |-> "filter", points |-> points, width |-> 2, node |-> node,
                intersects |-> intersects,
                segments |-> ProfileDataSegments(points),
                s |-> 1, i |-> 0, accepted |-> << >>, totalMileage |-> 0,
                result |-> [s \in 1..(Len(points) - 1) |-> << >>],
                yields |-> 0, done |-> FALSE])

(* getAccepted, lines 239-274, one iteration; yield: the probe yields.     *)
GetAcceptedStep(yield) ==
  /\ calc.fn = "filter" /\ ~calc.done
  /\ calc.s <= Len(calc.segments) /\ calc.s \in calc.intersects
  /\ calc.i < Len(calc.node)
  /\ yield => calc.i % YieldProbe = 0
  /\ LET accepted == AcceptedWith(calc.accepted, calc.node, calc.i,
                                  calc.segments[calc.s], calc.width, calc.totalMileage)
     IN  calc' = [calc EXCEPT
                    !.accepted = IF yield THEN KeptOverYield(accepted) ELSE accepted,
                    !.i = @ + 1,
                    !.yields = IF yield THEN @ + 1 ELSE @]
  /\ UNCHANGED <<req, ctl, pcs, prof, now, last>>

(* getPointsInsideProfile, lines 331-377: getAccepted has returned.        *)
AddSegmentPoints(yield) ==
  /\ calc.fn = "filter" /\ ~calc.done
  /\ calc.s <= Len(calc.segments) /\ calc.s \in calc.intersects
  /\ calc.i = Len(calc.node)
  /\ calc' = [calc EXCEPT
                !.result[calc.s] = @ \o calc.accepted,
                !.accepted = << >>,
                !.totalMileage = NextMileage(calc.segments[calc.s], TRUE, @),
                !.s = @ + 1,
                !.i = 0,
                !.yields = IF yield THEN @ + 1 ELSE @]
  /\ UNCHANGED <<req, ctl, pcs, prof, now, last>>

(* getPointsInsideProfile, lines 304-308: the node misses the segment.     *)
SkipSegment ==
  /\ calc.fn = "filter" /\ ~calc.done
  /\ calc.s <= Len(calc.segments) /\ calc.s \notin calc.intersects
  /\ calc' = [calc EXCEPT
                !.totalMileage = NextMileage(calc.segments[calc.s], FALSE, @),
                !.s = @ + 1]
  /\ UNCHANGED <<req, ctl, pcs, prof, now, last>>

(* getPointsInsideProfile, line 384: yield true.                           *)
FinishFilter ==
  /\ calc.fn = "filter" /\ ~calc.done
  /\ calc.s > Len(calc.segments)
  /\ calc' = [calc EXCEPT !.done = TRUE]
  /\ UNCHANGED <<req, ctl, pcs, prof, now, last>>

NextYield ==
  \/ \E yield \in BOOLEAN : GetAcceptedStep(yield)
  \/ \E yield \in BOOLEAN : AddSegmentPoints(yield)
  \/ SkipSegment
  \/ FinishFilter

SpecYield == InitYield /\ [][NextYield]_vars

(***************************************************************************)
(* A profile's markers as the objects they are.  profile.points[i] is a    *)
(* Vector3 that setPosition changes in place; the ProfileData constructor  *)
(* stores that same object as the end of segment i - 1 and the start of    *)
(* segment i, and computes planes and length from clones of it.  markers   *)
(* is the current value of each object; a segment refers to its end        *)
(* points by their index in profile.points.                                *)
(***************************************************************************)
InitAlias ==
  StartsWith(InitWorld,
             [fn |-> "alias", markers |-> << >>, built |-> FALSE,
              data |-> << >>, made |-> << >>, op |-> "none", events |-> << >>])

(* setPosition without its event.                                          *)
SetPositionSilent(c, index, position) ==
  [c EXCEPT !.markers[index + 1] = position]

(* Profile.setPosition(index, position), index counting from 0:            *)
(* point.copy(position), then the marker_moved event.  calc.events is what *)
(* the latest operation dispatched; an event without an index has -1.     *)
SetPositionAt(c, index, position) ==
  [c EXCEPT !.markers[index + 1] = position,
            !.events = Append(@, [type |-> "marker_moved", index |-> index])]

(* Profile.addMarker(point): push, the marker_added event, then            *)
(* setPosition(points.length - 1, point), which copies the point onto      *)
(* itself.                                                                 *)
AddMarkerPoint(point) ==
  /\ calc.fn = "alias"
  /\ Len(calc.markers) < MaxGeomMarkers
  /\ GroundLengthsAreIntegers(Append(calc.markers, point))
  /\ calc' = SetPositionAt(
                [calc EXCEPT !.markers = Append(@, point),
                             !.op = "addMarker",
                             !.events = <<[type |-> "marker_added", index |-> -1]>>],
                Len(calc.markers) + 1 - 1, point)
  /\ UNCHANGED <<req, ctl, pcs, prof, now, last>>

(* The host calls profile.setPosition(index - 1, position).                *)
MoveMarker(index, position) ==
  /\ calc.fn = "alias"
  /\ index \in 1..Len(calc.markers)
  /\ calc.markers[index] # position
  /\ GroundLengthsAreIntegers([calc.markers EXCEPT ![index] = position])
  /\ calc' = SetPositionAt([calc EXCEPT !.op = "setPosition", !.events = << >>],
                           index - 1, position)
  /\ UNCHANGED <<req, ctl, pcs, prof, now, last>>

(* new ProfileData(profile): start and end are the marker objects, the     *)
(* rest is computed from their values now.                                 *)
ConstructAliased ==
  /\ calc.fn = "alias"
  /\ ~calc.built
  /\ calc' = [calc EXCEPT
                !.built = TRUE,
                !.op = "new ProfileData",
                !.events = << >>,
                !.made = calc.markers,
                !.data = [i \in 1..Max(Len(calc.markers) - 1, 0) |->
                            [NewSegment(calc.markers[i], calc.markers[i + 1])
                               EXCEPT !.start = i, !.end = i + 1]]]
  /\ UNCHANGED <<req, ctl, pcs, prof, now, last>>

NextAlias ==
  \/ \E point \in MarkerChoices : AddMarkerPoint(point)
  \/ \E index \in 1..MaxGeomMarkers, position \in MarkerChoices :
       MoveMarker(index, position)
  \/ ConstructAliased

SpecAlias == InitAlias /\ [][NextAlias]_vars

(***************************************************************************)
(* The controller's boxes: the pointclouds it holds, the pointclouds with  *)
(* a request in flight, profilePCEntries and projectedBox, under           *)
(* deliveries, recompute(), addPointcloud() and removePointcloud().  A     *)
(* delivery is the projected boxes of its segments' points, one segment at *)
(* least holding points.  calc.added is the history of what each           *)
(* pointcloud's entries were given.                                        *)
(***************************************************************************)
MaxDeliveries == 2

SegmentBoxChoices ==
  {b \in [1..2 -> ProjectedBoxChoices \cup {EmptyBox}] : \E s \in 1..2 : ~b[s].empty}

InitBoxes ==
  StartsWith(InitWorld,
             [fn |-> "boxes", pointclouds |-> {}, inflight |-> {},
              entries |-> << >>, projectedBox |-> EmptyBox,
              added |-> [pc \in Pointclouds |-> << >>], deliveries |-> 0])

(* progressHandler's loop from segment s on.                               *)
RECURSIVE ProgressBoxes(_, _, _, _)
ProgressBoxes(c, pc, boxes, s) ==
  IF s > Len(boxes) THEN c
  ELSE LET entry == IF pc \in DOMAIN c.entries THEN c.entries[pc] ELSE NewEntry
           grown == EntryAddPointsBatches(entry, IF boxes[s].empty THEN 0 ELSE 1,
                                          boxes[s])
       IN ProgressBoxes(
            [c EXCEPT !.entries = [q \in DOMAIN c.entries \cup {pc} |->
                                     IF q = pc THEN grown ELSE c.entries[q]],
                      !.projectedBox = BoxUnion(@, grown.projectedBox),
                      !.added[pc] = Append(@, boxes[s])],
            pc, boxes, s + 1)

(* A request in flight for pc delivers: progressHandler(pc, progress).     *)
DeliverBoxes(pc, boxes) ==
  /\ calc.fn = "boxes"
  /\ pc \in calc.inflight
  /\ calc.deliveries < MaxDeliveries
  /\ calc' = [ProgressBoxes(calc, pc, boxes, 1) EXCEPT !.deliveries = @ + 1]
  /\ UNCHANGED <<req, ctl, pcs, prof, now, last>>

(* recompute(): the requests are cancelled, one is created per pointcloud. *)
RecomputeBoxes ==
  /\ calc.fn = "boxes"
  /\ calc' = [calc EXCEPT !.inflight = calc.pointclouds]
  /\ UNCHANGED <<req, ctl, pcs, prof, now, last>>

AddBoxesPointcloud(pc) ==
  /\ calc.fn = "boxes"
  /\ pc \notin calc.pointclouds
  /\ calc' = [calc EXCEPT !.pointclouds = @ \cup {pc}, !.inflight = calc.pointclouds \cup {pc}]
  /\ UNCHANGED <<req, ctl, pcs, prof, now, last>>

RemoveBoxesPointcloud(pc) ==
  /\ calc.fn = "boxes"
  /\ pc \in calc.pointclouds
  /\ calc' = [calc EXCEPT !.pointclouds = @ \ {pc}]
  /\ UNCHANGED <<req, ctl, pcs, prof, now, last>>

NextBoxes ==
  \/ \E pc \in Pointclouds, boxes \in SegmentBoxChoices : DeliverBoxes(pc, boxes)
  \/ RecomputeBoxes
  \/ \E pc \in Pointclouds : AddBoxesPointcloud(pc)
  \/ \E pc \in Pointclouds : RemoveBoxesPointcloud(pc)

SpecBoxes == InitBoxes /\ [][NextBoxes]_vars

(***************************************************************************)
(* The node test of getPointsInsideProfile, lines 295-308, for a node      *)
(* whose world bounding box is box.  A box has even sides and a diagonal   *)
(* of integer half length, so that its sphere has an integer centre and    *)
(* radius.  A NaN (0 / 0 in the parameter of the closest point) is nan.    *)
(***************************************************************************)
HalfSizeChoices == {<<0, 0, 0>>, <<1, 2, 2>>, <<2, 1, 2>>, <<0, 3, 4>>}

NodeBoxChoices ==
  {[min |-> Sub(c, h), max |-> AddVectors(c, h)] :
     c \in {<<x, y, z>> : x \in {-4, 5, 10, 14}, y \in {-5, -3, 0, 2, 5, 7}, z \in {0, 4}},
     h \in HalfSizeChoices}

(* Box3.getBoundingSphere *)
GetBoundingSphere(box) ==
  LET sum == AddVectors(box.min, box.max)
      size == Sub(box.max, box.min)
  IN [center |-> <<sum[1] \div 2, sum[2] \div 2, sum[3] \div 2>>,
      radius |-> Length(size) \div 2]

(* new Line3(start, end).closestPointToPoint(center, true).distanceTo(     *)
(* center), squared: the parameter t is clamped to [0, 1].                 *)
ClosestDistanceSquared(start, end, center) ==
  LET startEnd == Sub(end, start)
      startP == Sub(center, start)
      startEnd2 == Dot(startEnd, startEnd)
      t == Max(0, Min(startEnd2, Dot(startEnd, startP)))
      away == Sub(<<startEnd2 * startP[1], startEnd2 * startP[2], startEnd2 * startP[3]>>,
                  <<t * startEnd[1], t * startEnd[2], t * startEnd[3]>>)
  IN IF startEnd2 = 0 THEN [nan |-> TRUE, num |-> 0, den |-> 1]
     ELSE [nan |-> FALSE, num |-> Dot(away, away), den |-> startEnd2 * startEnd2]

(* intersects, lines 295-304: distance < bsWorld.radius + width, both      *)
(* sides being at least 0 when the distance is a number.                   *)
Intersects(box, segment, width) ==
  LET bsWorld == GetBoundingSphere(box)
      start == SetZ(segment.start, bsWorld.center[3])
      end == SetZ(segment.end, bsWorld.center[3])
      distance2 == ClosestDistanceSquared(start, end, bsWorld.center)
      reach == bsWorld.radius + width
  IN ~distance2.nan /\ distance2.num < reach * reach * distance2.den

InitNode ==
  \E points \in MarkerSequences, width \in WidthChoices, box \in NodeBoxChoices :
    StartsWith(InitWorld,
               [fn |-> "node", points |-> points, width |-> width, box |-> box,
                segments |-> << >>, skipped |-> << >>, tested |-> FALSE])

(* new ProfileData(profile), then the node test for each of its segments.  *)
TestNode ==
  /\ calc.fn = "node"
  /\ ~calc.tested
  /\ LET segments == ProfileDataSegments(calc.points) IN
     calc' = [calc EXCEPT
                !.segments = segments,
                !.skipped = [s \in 1..Len(segments) |->
                               ~Intersects(calc.box, segments[s], calc.width)],
                !.tested = TRUE]
  /\ UNCHANGED <<req, ctl, pcs, prof, now, last>>

SpecNode == InitNode /\ [][TestNode]_vars

(***************************************************************************)
(* The claims.                                                             *)
(***************************************************************************)
Live(r) == req[r].nFinish = 0 /\ req[r].nCancel = 0

(* C1: for every request, under any calls of update(), cancel() and        *)
(* finishLevelThenCancel(), those of the controller's reset() and          *)
(* recompute() included, onFinish and onCancel are invoked at most once    *)
(* in total.                                                               *)
C1_AtMostOneTerminalCallback ==
  \A r \in Requests : req[r].nFinish + req[r].nCancel <= 1

(* C2: once cancel() was called on a request, a later update() invokes no  *)
(* callback and does not resume the filter that was suspended.             *)
C2_UpdateAfterCancelIsNoOp ==
  \A r \in Requests :
    (last.op = "update" /\ last.arg = r /\ req[r].nCancel > 0)
      => (last.cb = <<>> /\ last.act # "resume")

(* C3: once onCancel was invoked for a request, no later step invokes it   *)
(* again or changes the request's queue or registration.                   *)
C3_CancelIdempotent ==
  [][\A r \in Requests :
       req[r].nCancel > 0 =>
         /\ req'[r].nCancel = req[r].nCancel
         /\ req'[r].priorityQueue = req[r].priorityQueue
         /\ Registered([req |-> req', pcs |-> pcs'], r) = Registered(World, r)]_vars

(* C4: after recompute() ran with a profile set, every request that is not *)
(* one of those it has just spawned has finished or was cancelled, the     *)
(* requests it spawns hold only the root, and only its requests deliver    *)
(* onProgress.                                                             *)
C4_RecomputeCancelsEarlierRequests ==
  /\ \A r \in Requests : (ctl.lastRun >= 0 /\ r \notin ctl.spawned) => ~Live(r)
  /\ last.ran > 0 =>
       \A r \in ctl.spawned : req[r].priorityQueue = QueuePush(EmptyQueue, Root)
  /\ \A i \in 1..Len(last.cb) :
       (ctl.lastRun >= 0 /\ last.cb[i][2] = "onProgress") => last.cb[i][1] \in ctl.spawned

(* C5: once finishLevelThenCancel() was called on a request whose          *)
(* highestLevelServed is L, maxDepth is L and stays L, further calls       *)
(* change nothing, highestLevelServed stays L, and update() discards every *)
(* entry of level > L it pops: it neither loads, serves nor expands it.    *)
C5_LevelCapHolds ==
  /\ [](\A r \in Requests :
          req[r].cancelRequested =>
            /\ req[r].maxDepth = req[r].highestLevelServed
            /\ req[r].gen = "filter" => NodeLevel[req[r].node] <= req[r].maxDepth)
  /\ [][\A r \in Requests :
          /\ (~req[r].cancelRequested /\ last'.op = "finishLevelThenCancel" /\ last'.arg = r)
               => (req'[r].cancelRequested
                   /\ req'[r].maxDepth = req[r].highestLevelServed)
          /\ req[r].cancelRequested =>
               /\ req'[r].cancelRequested
               /\ req'[r].maxDepth = req[r].maxDepth
               /\ req'[r].highestLevelServed = req[r].highestLevelServed
               /\ (last'.op = "update" /\ last'.arg = r /\ last'.node # 0) =>
                    IF NodeLevel[last'.node] > req[r].maxDepth
                    THEN /\ last'.act = "discard"
                         /\ pcs'[req[r].pc].load = pcs[req[r].pc].load
                         /\ \A n \in Nodes :
                              req'[r].priorityQueue[n] <= req[r].priorityQueue[n]
                    ELSE last'.act \in {"serve", "load", "resume"}]_vars

(* A request under finishLevelThenCancel() pops an entry deeper than its   *)
(* level and discards it.                                                  *)
C5_Witness ==
  \E r \in Requests :
    /\ req[r].cancelRequested
    /\ last.op = "update" /\ last.arg = r /\ last.act = "discard"
    /\ NodeLevel[last.node] > req[r].maxDepth

(* C6: after finishLevelThenCancel(), with update() called on while the    *)
(* request is registered and every requested load completing, the request  *)
(* empties its queue and invokes onFinish; an entry of level <= maxDepth   *)
(* leaves the queue only by being served, onFinish comes only once no      *)
(* filter is suspended, and onCancel is not invoked.                       *)
C6_GracefulDrain ==
  /\ (\E r \in Requests : req[r].cancelRequested)
       ~> (\E r \in Requests : req[r].cancelRequested /\ req[r].nFinish > 0
                                /\ QueueSize(req[r].priorityQueue) = 0
                                /\ req[r].gen # "filter")
  /\ [][\A r \in Requests, n \in Nodes :
          (/\ req[r].cancelRequested
           /\ NodeLevel[n] <= req[r].maxDepth
           /\ req'[r].priorityQueue[n] < req[r].priorityQueue[n])
            => (last'.op = "update" /\ last'.arg = r /\ last'.node = n
                /\ last'.act = "serve")]_vars
  /\ [](\A r \in Requests : req[r].cancelRequested => req[r].nCancel = 0)

(* A request under finishLevelThenCancel() serves a queued entry and, its  *)
(* queue empty, invokes onFinish.                                          *)
C6_Witness ==
  \E r \in Requests :
    /\ req[r].cancelRequested
    /\ last.op = "update" /\ last.arg = r /\ last.act \in {"serve", "resume"}
    /\ last.node # Root
    /\ \E i \in 1..Len(last.cb) : last.cb[i] = <<r, "onFinish">>
    /\ req[r].nCancel = 0

(* C7: whenever the points delivered to the controller since the last      *)
(* reset exceed threshold, every live request has cancelRequested set.     *)
C7_ThresholdFinishesLevel ==
  ctl.received > ctl.threshold =>
    \A r \in Requests : Live(r) => req[r].cancelRequested

(* C8: within DebounceMs of a run of recompute() no operation runs         *)
(* recompute() again: nothing is cancelled and nothing is spawned.         *)
C8_DebounceDropsSecondCall ==
  [][(ctl.lastRun >= 0 /\ now - ctl.lastRun < DebounceMs)
       => (last'.ran = 0 /\ Len(req') = Len(req))]_vars

(* C9: a mutation of the profile the controller holds runs recompute();    *)
(* a mutation of any other profile does not.                               *)
C9_MutationsRecompute ==
  \A p \in Profiles :
    (last.op \in {"addMarker", "setPosition"} /\ last.arg = p)
      => IF ctl.profile = p THEN last.ran > 0 ELSE last.ran = 0

(* C10: recompute() with a profile of fewer than 2 markers cancels and     *)
(* creates no request, leaves the controller's fields as they are, and     *)
(* emits no event and no callback.                                         *)
C10_InvalidProfileNoOp ==
  [][(last'.op = "recompute" /\ ctl.profile # NoProfile
        /\ prof[ctl.profile].markers < 2)
       => (/\ req' = req
           /\ pcs' = pcs
           /\ ctl'.requests = ctl.requests
           /\ ctl'.numPoints = ctl.numPoints
           /\ ctl'.scheduledRecomputeTime = ctl.scheduledRecomputeTime
           /\ last'.cb = <<>>
           /\ last'.ev = <<>>)]_vars

(* C11: a run of recompute() creates exactly one request for each          *)
(* pointcloud of the controller's set that is visible, and none for any    *)
(* other pointcloud.                                                       *)
C11_OneRequestPerVisiblePointcloud ==
  [][last'.ran > 0 =>
       \A pc \in Pointclouds :
         Cardinality({r \in (Len(req) + 1)..Len(req') : req'[r].pc = pc})
           = IF /\ \E i \in 1..Len(ctl'.pointclouds) : ctl'.pointclouds[i] = pc
                /\ pcs[pc].visible
             THEN 1 ELSE 0]_vars

(* recompute() ran over a set holding a hidden pointcloud and a visible    *)
(* one, and spawned a request.                                             *)
C11_Witness ==
  /\ last.ran > 0
  /\ ctl.spawned # {}
  /\ \E i \in 1..Len(ctl.pointclouds) : ~pcs[ctl.pointclouds[i]].visible

(* C12: a request is created holding only the root, the root is popped     *)
(* whenever it is queued, and every pop returns an entry whose radius is   *)
(* maximal among the entries queued at that moment.                        *)
C12_PopsHeaviestFirst ==
  [][/\ \A r \in (Len(req) + 1)..Len(req') :
          req'[r].priorityQueue = [n \in Nodes |-> IF n = Root THEN 1 ELSE 0]
     /\ (last'.op = "update" /\ last'.act \in {"discard", "serve", "load"}) =>
          LET q == req[last'.arg].priorityQueue
              n == last'.node
          IN /\ q[n] > 0
             /\ \/ n = Root
                \/ /\ q[Root] = 0
                   /\ \A m \in Nodes : q[m] > 0 => NodeRadius[n] >= NodeRadius[m]]_vars

(* A node was popped and served while a node of smaller radius and a node  *)
(* of equal radius were queued.                                            *)
C12_Witness ==
  /\ last.op = "update" /\ last.act = "serve" /\ last.node = 2
  /\ req[last.arg].priorityQueue[3] > 0
  /\ req[last.arg].priorityQueue[4] > 0

(* C13: within one request no node is filtered more than once.             *)
C13_NoNodeFilteredTwice ==
  [][(last'.op = "update" /\ last'.act = "serve")
       => last'.node \notin req[last'.arg].filtered]_vars

(* C14: pointsServed is the sum of the sizes handed to onProgress, the     *)
(* points accepted are those served plus those temporaryResult holds, and  *)
(* when a request invokes onFinish its temporaryResult is empty, so that   *)
(* pointsServed is then the number of points accepted.                     *)
C14_FinishedMeansAllDelivered ==
  \A r \in Requests :
    /\ req[r].pointsServed = req[r].delivered
    /\ req[r].accepted = req[r].pointsServed + DataSize(req[r].temporaryResult)
    /\ (\E i \in 1..Len(last.cb) : last.cb[i] = <<r, "onFinish">>) =>
         /\ DataSize(req[r].temporaryResult) = 0
         /\ req[r].pointsServed = req[r].accepted

(* A request invokes onFinish after a batch of more than ProgressBatch    *)
(* points and, in its last update(), the rest.                             *)
C14_Witness ==
  \E r \in Requests :
    /\ last.op = "update" /\ last.arg = r
    /\ last.cb = << <<r, "onProgress">>, <<r, "onFinish">> >>
    /\ req[r].nProgress >= 2
    /\ req[r].accepted > ProgressBatch


(* C15: getAccepted accepts a point for a segment if and only if its       *)
(* distance to the segment's ground line is below width/2 and its          *)
(* distance to the plane through the segment's middle is below length/2,   *)
(* both strictly: a point at exactly width/2 or exactly length/2 is        *)
(* rejected.  The distances are written out from the markers: with d the   *)
(* ground vector of the segment and L its length, the first is             *)
(* |d x (p - start)| / L and the second |d . (p - start) - L*L/2| / L; a   *)
(* segment of ground length 0 has both at 0 and accepts nothing.           *)
GroundVector(i) == SetZ(Sub(calc.points[i + 1], calc.points[i]), 0)
CutDistanceTimesLength(i) ==
  Abs(Cross(GroundVector(i), Sub(calc.pos, calc.points[i]))[3])
HalfDistanceTimesTwiceLength(i) ==
  Abs(2 * Dot(GroundVector(i), Sub(calc.pos, calc.points[i]))
        - Dot(GroundVector(i), GroundVector(i)))
InsideSegment(i) ==
  LET L == Length(GroundVector(i))
  IN  /\ 2 * CutDistanceTimesLength(i) < calc.width * L
      /\ HalfDistanceTimesTwiceLength(i) < L * L

C15_AcceptsStrictlyInside ==
  calc.fn = "filtered" =>
    \A i \in calc.intersects \cap (1..Len(calc.segments)) :
      (calc.out[i] # << >>) <=> InsideSegment(i)

C15_Witness ==
  /\ calc.fn = "filtered"
  /\ \E i \in calc.intersects \cap (1..Len(calc.segments)) :
       LET L == Length(GroundVector(i))
       IN  /\ L > 0
           /\ 2 * CutDistanceTimesLength(i) = calc.width * L
           /\ HalfDistanceTimesTwiceLength(i) < L * L
           /\ calc.out[i] = << >>
  /\ \E i \in calc.intersects \cap (1..Len(calc.segments)) : calc.out[i] # << >>

(* C16: the mileage recorded for a point accepted on segment k is the sum  *)
(* of the ground lengths of the segments before k plus the dot product of  *)
(* segment k's ground direction with (pos - start of segment k), whether   *)
(* or not the node reached the earlier segments; markers (0,0,0),          *)
(* (10,0,0), (10,10,0) with width 2 and point (10,5,0) give mileage 15.    *)
LengthBefore(k) == SeqSum([i \in 1..(k - 1) |-> Length(GroundVector(i))])
ExampleMarkers == << <<0, 0, 0>>, <<10, 0, 0>>, <<10, 10, 0>> >>
IsExample ==
  calc.points = ExampleMarkers /\ calc.width = 2 /\ calc.pos = <<10, 5, 0>>

C16_MileageIsCumulative ==
  calc.fn = "filtered" =>
    \A k \in calc.intersects \cap (1..Len(calc.segments)) :
      calc.out[k] # << >> =>
        LET m == calc.out[k][1].mileage
            L == Length(GroundVector(k))
        IN  /\ m.num * L
                 = (LengthBefore(k) * L
                      + Dot(GroundVector(k), Sub(calc.pos, calc.points[k]))) * m.den
            /\ (IsExample /\ k = 2) => m.num = 15 * m.den

C16_Witness ==
  /\ calc.fn = "filtered"
  /\ IsExample
  /\ calc.intersects = {2}
  /\ calc.out[2] # << >>

(* C17: if every non-empty column of a and of b has length numPoints times *)
(* the attribute's stride, then after a.add(b) a.numPoints is the sum of   *)
(* both counts and every non-empty column of a has length a.numPoints      *)
(* times the stride, whichever of the two buffers hold the column, a       *)
(* buffer of zero points included.                                         *)
Stride(attribute) ==
  CASE attribute = "position" -> 3
    [] attribute = "color"    -> 4
    [] attribute = "mileage"  -> 1
ColumnsFit(points) ==
  \A a \in Attributes :
    Len(points.data[a]) # 0 => Len(points.data[a]) = points.numPoints * Stride(a)

C17_AddKeepsColumnLengths ==
  (calc.fn = "added" /\ ColumnsFit(calc.old) /\ ColumnsFit(calc.b)) =>
    /\ calc.a.numPoints = calc.old.numPoints + calc.b.numPoints
    /\ ColumnsFit(calc.a)

C17_Witness ==
  /\ calc.fn = "added" /\ ColumnsFit(calc.old) /\ ColumnsFit(calc.b)
  /\ calc.old.numPoints > 0 /\ calc.b.numPoints > 0
  /\ Len(calc.old.data["position"]) # 0 /\ Len(calc.b.data["position"]) # 0
  /\ Len(calc.old.data["color"]) # 0 /\ Len(calc.b.data["color"]) = 0
  /\ Len(calc.old.data["mileage"]) = 0 /\ Len(calc.b.data["mileage"]) # 0

(* C18: after a.add(b), a column held by both buffers is a's old data      *)
(* followed by b's data; a column held by a only is a's old data followed  *)
(* by b.numPoints times stride zeros; a column held by b only is (old      *)
(* a.numPoints) times stride zeros followed by b's data; so point j of b   *)
(* sits at point index old a.numPoints + j in every column and a's old     *)
(* points keep their indices.                                              *)
Zeros(n) == [i \in 1..n |-> 0]
Present(points, a) == Len(points.data[a]) # 0

C18_AddPlacesData ==
  (calc.fn = "added" /\ ColumnsFit(calc.old) /\ ColumnsFit(calc.b)) =>
    \A a \in Attributes :
      LET old   == calc.old.data[a]
          other == calc.b.data[a]
          new   == calc.a.data[a]
      IN  /\ (Present(calc.old, a) /\ Present(calc.b, a)) => new = old \o other
          /\ (Present(calc.old, a) /\ ~Present(calc.b, a)) =>
               new = old \o Zeros(calc.b.numPoints * Stride(a))
          /\ (~Present(calc.old, a) /\ Present(calc.b, a)) =>
               new = Zeros(calc.old.numPoints * Stride(a)) \o other
          /\ Present(calc.a, a) =>
               /\ \A j \in 1..(calc.old.numPoints * Stride(a)) :
                    new[j] = IF Present(calc.old, a) THEN old[j] ELSE 0
               /\ \A j \in 1..(calc.b.numPoints * Stride(a)) :
                    new[calc.old.numPoints * Stride(a) + j]
                      = IF Present(calc.b, a) THEN other[j] ELSE 0

C18_Witness ==
  /\ C17_Witness
  /\ calc.old.numPoints = 2 /\ calc.b.numPoints = 2
  /\ calc.a.data["mileage"] = <<0, 0, 201, 202>>

(* C19: when the two buffers disagree on the elements per point of an      *)
(* attribute both hold, Points.add fails with a StrideMismatch error and   *)
(* leaves the receiving buffer unchanged.                                  *)
StridesDisagree(this, points) ==
  \E a \in Attributes :
    /\ Present(this, a) /\ Present(points, a)
    /\ Len(this.data[a]) * points.numPoints # Len(points.data[a]) * this.numPoints

C19_StrideMismatchFails ==
  (calc.fn = "added" /\ StridesDisagree(calc.old, calc.b)) =>
    calc.error = "StrideMismatch" /\ calc.a = calc.old

(* C20: a ProfileData built from n >= 2 markers has exactly n - 1          *)
(* segments, segment i ends at the marker where segment i + 1 starts, and  *)
(* each segment's side and forward vectors (the normals of its halfPlane   *)
(* and cutPlane) are of unit length and orthogonal, for every marker       *)
(* placement, two consecutive markers with the same x and y included.      *)
IsUnit(v) == Dot(v.num, v.num) = v.den * v.den

C20_SegmentsWellFormed ==
  (calc.fn = "data" /\ Len(calc.points) >= 2) =>
    /\ Len(calc.segments) = Len(calc.points) - 1
    /\ \A i \in 1..(Len(calc.segments) - 1) :
         calc.segments[i].end = calc.segments[i + 1].start
    /\ \A i \in 1..Len(calc.segments) :
         LET side    == calc.segments[i].halfPlane.normal
             forward == calc.segments[i].cutPlane.normal
         IN  IsUnit(side) /\ IsUnit(forward) /\ Dot(side.num, forward.num) = 0

(* C21: after any sequence of ProfilePointCloudEntry.addPoints calls, no    *)
(* batch has drawRange.count above the batch capacity (10 000), every      *)
(* batch except the most recent one is exactly full, the counts of all     *)
(* batches add up to the number of points added, and the points lie in     *)
(* arrival order, none overwritten: slot k of batch b holds point          *)
(* (b - 1) * capacity + k + 1, each slot written once.                     *)
BatchInOrder(batches, b) ==
  LET w == batches[b].writes IN
  \A j \in 1..Len(w) :
    /\ w[j].slot = SeqSum([h \in 1..(j - 1) |-> w[h].len])
    /\ w[j].id = (b - 1) * BatchSize + w[j].slot + 1
    /\ w[j].slot + w[j].len <= batches[b].count

C21_BatchesFillInOrder ==
  calc.fn = "entry" =>
    LET batches == calc.entry.batches IN
    /\ \A b \in 1..Len(batches) :
         /\ batches[b].count <= BatchSize
         /\ b < Len(batches) => batches[b].count = BatchSize
         /\ BatchInOrder(batches, b)
         /\ batches[b].count = SeqSum([h \in 1..Len(batches[b].writes) |->
                                         batches[b].writes[h].len])
    /\ SeqSum([b \in 1..Len(batches) |-> batches[b].count]) = calc.entry.numAdded

C21_Witness ==
  /\ calc.fn = "entry"
  /\ Len(calc.entry.batches) >= 3
  /\ calc.entry.batches[1].count = BatchSize
  /\ Len(calc.entry.batches[1].writes) >= 2
  /\ calc.entry.batches[Len(calc.entry.batches)].count \in 1..(BatchSize - 1)

(* C22: an error raised while filtering a node (an attribute array whose   *)
(* length is not a whole multiple of numPoints) is swallowed: update()     *)
(* does not throw.                                                         *)
C22_FilterErrorSwallowed == last.op = "update" => last.err = "none"

(* C23: each update() call pops at most one entry from the priority queue  *)
(* and promotes at most one loaded node to filtering; while a node's       *)
(* filtering is suspended at a yield, update() pops no entry and promotes  *)
(* no node until that filtering has completed.                             *)
Popped(r, m) == Max(req[r].priorityQueue[m] - req'[r].priorityQueue[m], 0)

C23_OnePopPerUpdate ==
  [][(last'.op = "update") =>
       LET r == last'.arg IN
       /\ SeqSum([m \in Nodes |-> Popped(r, m)]) <= 1
       /\ \A m \in Nodes : Popped(r, m) > 0 => m = last'.node
       /\ Cardinality(req'[r].filtered \ req[r].filtered) <= 1
       /\ (req'[r].gen = "filter" /\ req[r].gen # "filter") => last'.act = "serve"
       /\ req[r].gen = "filter" =>
            /\ last'.act = "resume"
            /\ req'[r].priorityQueue = req[r].priorityQueue
            /\ req'[r].filtered = req[r].filtered
            /\ req'[r].gen = "filter" => req'[r].node = req[r].node]_vars

C23_Witness ==
  /\ last.op = "update" /\ last.act = "resume"
  /\ req[last.arg].gen = "filter"
  /\ QueueSize(req[last.arg].priorityQueue) > 1

(* C24: for a fixed node, segment and profile the accepted indices,        *)
(* mileages and positions the filter produces are the same whatever the    *)
(* number and placement of its yields, none included: they are those of    *)
(* the filter run without a pause.                                         *)
RECURSIVE AcceptedWithoutPause(_, _, _)
AcceptedWithoutPause(s, i, accepted) ==
  IF i >= Len(calc.node) THEN accepted
  ELSE AcceptedWithoutPause(s, i + 1,
         AcceptedWith(accepted, calc.node, i, calc.segments[s], calc.width,
                      LengthBefore(s)))

C24_YieldsDoNotChangeResult ==
  (calc.fn = "filter" /\ calc.done) =>
    \A s \in 1..Len(calc.segments) :
      calc.result[s] = IF s \in calc.intersects
                       THEN AcceptedWithoutPause(s, 0, << >>) ELSE << >>

C24_Witness ==
  /\ calc.fn = "filter" /\ calc.done
  /\ calc.yields >= 3
  /\ \E s \in 1..Len(calc.segments) : Len(calc.result[s]) >= 2

(* C25: a ProfileData is a snapshot: after Profile.setPosition or          *)
(* addMarker changes the profile, the start, end, cutPlane, halfPlane and  *)
(* length of every segment of an already constructed ProfileData are what  *)
(* they were at construction, and the planes and the length are those of   *)
(* the segment's start and end.                                            *)
C25_ProfileDataIsSnapshot ==
  (calc.fn = "alias" /\ calc.built) =>
    \A k \in 1..Len(calc.data) :
      LET start == calc.markers[calc.data[k].start]
          end   == calc.markers[calc.data[k].end]
          now1  == NewSegment(start, end)
          then1 == NewSegment(calc.made[k], calc.made[k + 1])
      IN  /\ start = calc.made[k]
          /\ end = calc.made[k + 1]
          /\ calc.data[k].cutPlane = then1.cutPlane
          /\ calc.data[k].halfPlane = then1.halfPlane
          /\ calc.data[k].length = then1.length
          /\ calc.data[k].cutPlane = now1.cutPlane
          /\ calc.data[k].halfPlane = now1.halfPlane
          /\ calc.data[k].length = now1.length


(* C26: an update() that pops a node that is not loaded (and not deeper    *)
(* than maxDepth) requests its load, pushes the entry back and does        *)
(* nothing else: the queue holds the same entries, nothing is filtered or  *)
(* expanded, highestLevelServed and temporaryResult are unchanged, no      *)
(* callback fires and no event is dispatched.                              *)
PoppedUnloaded(r, n) ==
  /\ req[r].gen = "none"
  /\ n \in PopChoices(req[r].priorityQueue)
  /\ NodeLevel[n] <= req[r].maxDepth
  /\ pcs[req[r].pc].load[n] # "loaded"

C26_UnloadedPopOnlyLoads ==
  [][(last'.op = "update" /\ PoppedUnloaded(last'.arg, last'.node)) =>
       LET r == last'.arg
           n == last'.node
       IN /\ last'.act = "load"
          /\ pcs'[req[r].pc].load[n] = "loading"
          /\ pcs' = [pcs EXCEPT ![req[r].pc].load[n] = "loading"]
          /\ req'[r].priorityQueue = req[r].priorityQueue
          /\ req' = [req EXCEPT ![r].gen = "end"]
          /\ ctl' = ctl /\ prof' = prof
          /\ last'.cb = <<>> /\ last'.ev = <<>> /\ last'.err = "none"]_vars

C26_Witness ==
  /\ last.op = "update" /\ last.act = "load"
  /\ last.node # Root
  /\ req[last.arg].priorityQueue[last.node] = 1
  /\ QueueSize(req[last.arg].priorityQueue) > 1
  /\ DataSize(req[last.arg].temporaryResult) > 0

(* C27: one update() performs one step: every update() on a request that   *)
(* is neither finished nor cancelled, has a non-empty queue and has no     *)
(* filtering suspended pops one entry from the priority queue.             *)
Poppable(r) ==
  /\ req[r].nFinish = 0 /\ req[r].nCancel = 0
  /\ QueueSize(req[r].priorityQueue) > 0
  /\ req[r].gen # "filter"

C27_EveryUpdatePops ==
  [][(last'.op = "update" /\ Poppable(last'.arg)) =>
       /\ last'.node \in PopChoices(req[last'.arg].priorityQueue)
       /\ last'.act \in {"discard", "load", "serve"}]_vars

(* C28: over a finite octree, with update() called while the request is    *)
(* registered and every requested load completing, a request that is never *)
(* cancelled ends with its queue empty, onFinish called and itself removed *)
(* from the pointcloud's profileRequests, and stays so.                    *)
Terminated(r) ==
  /\ QueueSize(req[r].priorityQueue) = 0
  /\ req[r].nFinish > 0
  /\ ~Registered(World, r)

C28_RequestTerminates ==
  <>[](req # <<>> /\ \A r \in Requests : Terminated(r) /\ req[r].nCancel = 0)

C28_Witness ==
  \E r \in Requests :
    /\ Terminated(r)
    /\ ~req[r].cancelRequested
    /\ req[r].filtered = {n \in Nodes : NodeIntersectsProfile(req[r].pc, n, Len(req[r].temporaryResult))}
    /\ Cardinality(req[r].filtered) >= 3
    /\ \A n \in Nodes : pcs[req[r].pc].load[n] = "loaded" <=> n \in req[r].filtered

(* C29: a loaded node popped by update() is expanded if and only if its    *)
(* level is 0 or (its level is a multiple of hierarchyStepSize and it has  *)
(* children); expansion pushes only nodes that intersect the profile, each *)
(* weighing its own radius, and an unloaded or depth-discarded node is     *)
(* never expanded.                                                         *)
RECURSIVE Descendants(_, _)
Descendants(pc, n) ==
  LET kids == {NodeChildren(pc, n)[i] : i \in 1..Len(NodeChildren(pc, n))}
  IN kids \cup UNION {Descendants(pc, c) : c \in kids}

(* How many entries of node m the update() that popped n pushed.           *)
Pushed(r, n, m) ==
  LET served == \/ NodeLevel[n] > req[r].maxDepth
                \/ pcs[req[r].pc].load[n] = "loaded"
  IN req'[r].priorityQueue[m]
       - (req[r].priorityQueue[m] - IF m = n /\ served THEN 1 ELSE 0)

C29_ExpansionRule ==
  [][IF last'.op = "update" /\ req[last'.arg].gen = "none" /\ last'.node # 0
     THEN LET r == last'.arg
              n == last'.node
              pc == req[r].pc
              nsegs == NumSegments(Markers(World, req[r].profile))
              expands == /\ pcs[pc].load[n] = "loaded"
                         /\ NodeLevel[n] <= req[r].maxDepth
                         /\ \/ NodeLevel[n] = 0
                            \/ /\ NodeLevel[n] % HierarchyStepSize(pc) = 0
                               /\ NodeHasChildren(pc, n)
          IN /\ last'.exp = IF expands THEN <<n>> ELSE <<>>
             /\ \A m \in Nodes :
                  /\ Pushed(r, n, m) >= 0
                  /\ Pushed(r, n, m) > 0 =>
                       /\ expands
                       /\ m \in Descendants(pc, n)
                       /\ NodeIntersectsProfile(pc, m, nsegs)
                       /\ m # Root
             /\ expands =>
                  \A i \in 1..Len(NodeChildren(pc, n)) :
                    NodeIntersectsProfile(pc, NodeChildren(pc, n)[i], nsegs)
                      => Pushed(r, n, NodeChildren(pc, n)[i]) >= 1
     ELSE last'.exp = <<>>]_vars

(* A loaded node that has children is served without being expanded: its   *)
(* level is not a multiple of hierarchyStepSize.                           *)
C29_Witness ==
  /\ last.op = "update" /\ last.act = "serve"
  /\ last.exp = <<>>
  /\ NodeHasChildren(req[last.arg].pc, last.node)
  /\ req[last.arg].maxDepth >= NodeLevel[last.node]

(* C30: when a node's filtering completes, onProgress is called if and     *)
(* only if temporaryResult holds more than 100 points, or the queue is     *)
(* empty and temporaryResult holds at least one; it is called once, with   *)
(* all of them, never with an empty ProfileData, and right after it        *)
(* temporaryResult is a fresh empty ProfileData.                           *)
TimesCalled(cb, x) == Cardinality({i \in 1..Len(cb) : cb[i] = x})

(* The update() of request r completes a node's filtering in this step.    *)
FilterCompletes(r) ==
  /\ last'.op = "update" /\ last'.arg = r
  /\ last'.act \in {"serve", "resume"}
  /\ last'.err = "none"
  /\ req'[r].gen # "filter"

C30_ProgressAfterFilter ==
  [][\A r \in Requests :
       FilterCompletes(r) =>
         LET size == DataSize(req[r].temporaryResult)
                       + (req'[r].accepted - req[r].accepted)
             due == \/ size > ProgressBatch
                    \/ QueueSize(req'[r].priorityQueue) = 0 /\ size > 0
             calls == TimesCalled(last'.cb, <<r, "onProgress">>)
         IN /\ calls = IF due THEN 1 ELSE 0
            /\ due => /\ req'[r].delivered = req[r].delivered + size
                      /\ req'[r].pointsServed = req[r].pointsServed + size
                      /\ req'[r].temporaryResult =
                           NewProfileData(Markers(World, req[r].profile))
                      /\ DataSize(req'[r].temporaryResult) = 0
            /\ ~due => /\ DataSize(req'[r].temporaryResult) = size
                       /\ req'[r].delivered = req[r].delivered]_vars

(* A node's filtering, resumed after a yield, completes with the queue     *)
(* empty and at most 100 points in temporaryResult, the request's first    *)
(* delivery: onProgress, then onFinish.                                    *)
C30_Witness ==
  \E r \in Requests :
    /\ last.op = "update" /\ last.arg = r /\ last.act = "resume"
    /\ last.cb = <<<<r, "onProgress">>, <<r, "onFinish">>>>
    /\ req[r].nProgress = 1
    /\ req[r].delivered \in 1..ProgressBatch

(* C31: for each onProgress delivery carrying k segments the controller    *)
(* dispatches exactly k recomputed_segment events, one per segment in      *)
(* segment order, then exactly one recompute_finished; a pointcloud's      *)
(* entry is created on its first delivery and never replaced.              *)
EventsOfDelivery(k) ==
  [i \in 1..(k + 1) |-> IF i <= k THEN "recomputed_segment" ELSE "recompute_finished"]

Delivers(r) ==
  /\ last'.op = "update" /\ last'.arg = r
  /\ TimesCalled(last'.cb, <<r, "onProgress">>) > 0

C31_EventsPerDelivery ==
  [][/\ \A r \in Requests :
          Delivers(r) =>
            LET k == Len(req[r].temporaryResult) IN
            /\ TimesCalled(last'.cb, <<r, "onProgress">>) = 1
            /\ k >= 1
            /\ last'.ev = EventsOfDelivery(k)
            /\ last'.seg = [i \in 1..k |-> i]
            /\ ctl'.entries[req[r].pc] >= 0
     /\ (\A r \in Requests : ~Delivers(r)) =>
          /\ last'.seg = <<>>
          /\ \A i \in 1..Len(last'.ev) :
               last'.ev[i] \notin {"recomputed_segment", "recompute_finished"}
     /\ \A pc \in Pointclouds :
          /\ ctl.entries[pc] >= 0 => ctl'.entries[pc] >= ctl.entries[pc]
          /\ (ctl.entries[pc] < 0 /\ ctl'.entries[pc] >= 0) =>
               \E r \in Requests : Delivers(r) /\ req[r].pc = pc]_vars

(* A request's second delivery, of two segments, to an entry that holds    *)
(* the points of the first.                                                *)
C31_Witness ==
  /\ last.op = "update"
  /\ last.seg = <<1, 2>>
  /\ last.ev = EventsOfDelivery(2)
  /\ req[last.arg].nProgress >= 2
  /\ ctl.entries[req[last.arg].pc] = req[last.arg].delivered
  /\ ctl.entries[req[last.arg].pc] > ProgressBatch

(* C32: after a delivery the controller's projectedBox is the union of the *)
(* projectedBox of every entry, and each entry's projectedBox is the union *)
(* of the projected boxes of all point sets added to it, across            *)
(* recompute() and removePointcloud() too.                                 *)
IsUnionOf(box, boxes) ==
  LET full == {b \in boxes : ~b.empty} IN
  IF full = {} THEN box.empty
  ELSE /\ ~box.empty
       /\ \E b \in full : b.min = box.min
       /\ \E b \in full : b.max = box.max
       /\ \A b \in full : box.min <= b.min /\ b.max <= box.max

C32_ProjectedBoxIsUnion ==
  (calc.fn = "boxes" /\ calc.deliveries > 0) =>
    /\ IsUnionOf(calc.projectedBox,
                 {calc.entries[pc].projectedBox : pc \in DOMAIN calc.entries})
    /\ \A pc \in DOMAIN calc.entries :
         IsUnionOf(calc.entries[pc].projectedBox,
                   {calc.added[pc][i] : i \in 1..Len(calc.added[pc])})
    /\ \A pc \in Pointclouds : pc \notin DOMAIN calc.entries => calc.added[pc] = << >>

(* Two entries of different boxes, one of a pointcloud since removed, and  *)
(* a recompute() after the deliveries.                                     *)
C32_Witness ==
  /\ calc.fn = "boxes" /\ calc.deliveries >= 2
  /\ DOMAIN calc.entries = {1, 2}
  /\ calc.entries[1].projectedBox # calc.entries[2].projectedBox
  /\ calc.projectedBox \notin {calc.entries[1].projectedBox, calc.entries[2].projectedBox}
  /\ calc.pointclouds = {2} /\ calc.inflight = {2}

(* C33: Profile.addMarker(p) appends exactly one marker, p, and dispatches *)
(* marker_added and then marker_moved for the new marker's index, once     *)
(* each and nothing else.                                                  *)
C33_AddMarkerEvents ==
  [][(calc.fn = "alias" /\ calc'.op = "addMarker") =>
       /\ Len(calc'.markers) = Len(calc.markers) + 1
       /\ SubSeq(calc'.markers, 1, Len(calc.markers)) = calc.markers
       /\ Len(calc'.events) = 2
       /\ calc'.events[1].type = "marker_added"
       /\ calc'.events[2] = [type |-> "marker_moved", index |-> Len(calc'.markers) - 1]
       /\ calc'.data = calc.data]_vars

(* addMarker adding a third marker to a profile one of whose markers was   *)
(* moved before.                                                           *)
C33_Witness ==
  /\ calc.fn = "alias" /\ calc.op = "addMarker"
  /\ Len(calc.markers) = 3
  /\ calc.events[2].index = 2
  /\ calc.built /\ calc.made # SubSeq(calc.markers, 1, Len(calc.made))

(* C34: a node is skipped for a segment exactly when the distance from its *)
(* bounding sphere's centre to the segment is at least radius + width, and *)
(* then no point inside the node's bounding box passes the acceptance test *)
(* of that segment.                                                        *)
PointsInside(box) ==
  {<<x, y, z>> : x \in box.min[1]..box.max[1], y \in box.min[2]..box.max[2],
                 z \in {box.min[3], box.max[3]}}

(* The squared distance, on the ground, from c to the segment from s to e: *)
(* to an end point when c projects outside the segment, else to the line.  *)
GroundDistanceSquared(c, s, e) ==
  LET v == SetZ(Sub(e, s), 0)
      w == SetZ(Sub(c, s), 0)
      u == SetZ(Sub(c, e), 0)
  IN IF Dot(w, v) <= 0 THEN [num |-> Dot(w, w), den |-> 1]
     ELSE IF Dot(w, v) >= Dot(v, v) THEN [num |-> Dot(u, u), den |-> 1]
     ELSE [num |-> Cross(v, w)[3] * Cross(v, w)[3], den |-> Dot(v, v)]

PassesSegment(pos, segment, width) ==
  Accepts(RAbs(DistanceToPoint(segment.cutPlane, pos)),
          RAbs(DistanceToPoint(segment.halfPlane, pos)), width, segment.length)

SkipLosesNothing ==
  (calc.fn = "node" /\ calc.tested) =>
    \A s \in 1..Len(calc.segments) :
      calc.skipped[s] =>
        \A pos \in PointsInside(calc.box) : ~PassesSegment(pos, calc.segments[s], calc.width)

C34_SkipExactAndLossless ==
  (calc.fn = "node" /\ calc.tested) =>
    /\ \A s \in 1..Len(calc.segments) :
         LET sphere == GetBoundingSphere(calc.box)
             reach == sphere.radius + calc.width
             d2 == GroundDistanceSquared(sphere.center, calc.points[s], calc.points[s + 1])
         IN calc.skipped[s] <=> d2.num >= reach * reach * d2.den
    /\ SkipLosesNothing

(* C35: once removePointcloud(pc) has taken pc out of the controller, the  *)
(* controller neither creates nor grows the entry of pc nor changes pc's   *)
(* visible flag, for as long as pc stays out.                              *)
InController(pointclouds, pc) == \E i \in 1..Len(pointclouds) : pointclouds[i] = pc

C35_RemovedIsIgnored ==
  [][\A pc \in Pointclouds :
       (~InController(ctl.pointclouds, pc) /\ ~InController(ctl'.pointclouds, pc)) =>
         /\ ctl'.entries[pc] = ctl.entries[pc]
         /\ pcs'[pc].visible = pcs[pc].visible]_vars
=============================================================================
